---------------------------- MODULE Spec2Model ----------------------------
(***************************************************************************)
(* A model of persistent_set<T> (src/persistent_set.h): a persistent,      *)
(* path-copying, unbalanced binary search tree whose nodes are shared      *)
(* between versions through std::shared_ptr.                               *)
(*                                                                         *)
(* The heap is explicit: every bNode / node object is a cell with its two  *)
(* owning child pointers, its value, and the use count of the shared_ptr   *)
(* control block.  A cell is deallocated exactly when its use count drops  *)
(* to zero, as std::shared_ptr does.  Raw pointers (iterator::_node,       *)
(* iterator::root, the bNode* arguments) are node ids.                     *)
(***************************************************************************)
EXTENDS Integers, Sequences, FiniteSets, TLC

(* ------------------------------ bounds -------------------------------- *)

\* The element type T is modelled by the integers 1..MaxVal with < and >.
MaxVal == 3

Values == 1..MaxVal

\* The persistent_set objects of the program (two named variables).
HandleSeq == <<"A", "B">>

Handles == {HandleSeq[i] : i \in DOMAIN HandleSeq}

\* Enough cells for two versions of MaxVal elements each plus the version a
\* mutation is building (each version: one anchor and at most MaxVal nodes).
MaxNodes == 3 * (MaxVal + 1)

NodeIds == 1..MaxNodes

(* ------------------------------- heap --------------------------------- *)

\* nullptr
Null == 0

\* A bNode that is not a node has no value member (the anchor).
NoValue == 0

\* A cell that holds no object.
FreeCell == [live |-> FALSE, left |-> Null, right |-> Null, value |-> NoValue, rc |-> 0]

EmptyHeap == [n \in NodeIds |-> FreeCell]

\* operator new: the address of the allocated object (the lowest free cell).
NewId(H) == CHOOSE n \in DOMAIN H : ~H[n].live /\ \A m \in DOMAIN H : ~H[m].live => n <= m

\* Copying a shared_ptr: one more owner.
Incref(H, p) == IF p = Null THEN H ELSE [H EXCEPT ![p].rc = @ + 1]

\* Destroying (or resetting) a shared_ptr: one owner fewer; the last owner
\* destroys the object, which destroys its two member shared_ptrs.
RECURSIVE Release(_, _)
Release(H, p) ==
    IF p = Null THEN H
    ELSE IF H[p].rc > 1 THEN [H EXCEPT ![p].rc = @ - 1]
    ELSE LET l == H[p].left
             r == H[p].right
         IN Release(Release([H EXCEPT ![p] = FreeCell], r), l)

\* std::make_shared<node>(left, right, value): a new object owned once, whose
\* constructor copies the two shared_ptrs it is given.
MakeNode(H, l, r, v) ==
    LET n == NewId(H)
        H1 == [H EXCEPT ![n] = [live |-> TRUE, left |-> l, right |-> r, value |-> v, rc |-> 1]]
    IN [heap |-> Incref(Incref(H1, l), r), ptr |-> n]

\* std::make_shared<bNode>(): a valueless node with no children.
MakeAnchor(H) == MakeNode(H, Null, Null, NoValue)

\* bNode::get_value
get_value(H, p) == H[p].value

\* bNode::min
RECURSIVE min(_, _)
min(H, cur) == IF H[cur].left # Null THEN min(H, H[cur].left) ELSE cur

\* bNode::max
RECURSIVE max(_, _)
\* A variant that stops one node short of the rightmost one.
max_short(H, cur) ==
    IF H[cur].right # Null /\ H[H[cur].right].right # Null THEN max(H, H[cur].right) ELSE cur

max(H, cur) == IF H[cur].right # Null THEN max(H, H[cur].right) ELSE cur

(* ------------------------------ cursors ------------------------------- *)

\* The outcome of reading through a null pointer: the program faults.
Fault == -1

\* The value of a raw pointer whose object has been deallocated: an invalid
\* pointer value, which no operation may use.
Invalid == -2

\* iterator(_node, root)
iterator(n, r) == [node |-> n, root |-> r]

\* persistent_set::end, for a set whose member tree is t (tree.get() is
\* nullptr when the set has no anchor).
end(t) == iterator(t, t)

\* persistent_set::begin
begin(H, t) == IF t = Null \/ H[t].left = Null THEN end(t) ELSE iterator(min(H, t), t)

\* operator== of two iterators compares _node only.
SameCursor(a, b) == a.node = b.node

\* The for (;;) of persistent_set::find, from cur on.
RECURSIVE find_loop(_, _, _, _)
\* A variant that descends to the wrong side.
find_loop_wrongway(H, t, cur, value) ==
    IF cur = Null THEN end(t)
    ELSE IF get_value(H, cur) > value THEN find_loop(H, t, H[cur].right, value)
    ELSE IF get_value(H, cur) < value THEN find_loop(H, t, H[cur].left, value)
    ELSE iterator(cur, t)

find_loop(H, t, cur, value) ==
    IF cur = Null THEN end(t)
    ELSE IF get_value(H, cur) > value THEN find_loop(H, t, H[cur].left, value)
    ELSE IF get_value(H, cur) < value THEN find_loop(H, t, H[cur].right, value)
    ELSE iterator(cur, t)

\* persistent_set::find
find(H, t, value) == IF t = Null THEN end(t) ELSE find_loop(H, t, H[t].left, value)

\* The for (;;) of bNode::next: the re-descent from the root towards n.
RECURSIVE next_loop(_, _, _, _)
\* A variant that does not record the candidate when it moves left.
next_loop_norecord(H, n, cur, result) ==
    IF cur = Null THEN Fault
    ELSE IF get_value(H, cur) < get_value(H, n) THEN next_loop(H, n, H[cur].right, result)
    ELSE IF get_value(H, cur) > get_value(H, n) THEN next_loop(H, n, H[cur].left, result)
    ELSE result

next_loop(H, n, cur, result) ==
    IF cur = Null THEN Fault
    ELSE IF get_value(H, cur) < get_value(H, n) THEN next_loop(H, n, H[cur].right, result)
    ELSE IF get_value(H, cur) > get_value(H, n) THEN next_loop(H, n, H[cur].left, cur)
    ELSE result

\* bNode::next
next(H, n, root) ==
    IF H[n].right # Null THEN min(H, H[n].right) ELSE next_loop(H, n, H[root].left, root)

\* The for (;;) of bNode::prev.
RECURSIVE prev_loop(_, _, _, _)
\* A variant that descends to the wrong side.
prev_loop_wrongway(H, n, cur, result) ==
    IF cur = Null THEN Fault
    ELSE IF get_value(H, cur) < get_value(H, n) THEN prev_loop(H, n, H[cur].left, cur)
    ELSE IF get_value(H, cur) > get_value(H, n) THEN prev_loop(H, n, H[cur].right, result)
    ELSE result

prev_loop(H, n, cur, result) ==
    IF cur = Null THEN Fault
    ELSE IF get_value(H, cur) < get_value(H, n) THEN prev_loop(H, n, H[cur].right, cur)
    ELSE IF get_value(H, cur) > get_value(H, n) THEN prev_loop(H, n, H[cur].left, result)
    ELSE result

\* A variant whose candidate is initially null instead of the anchor.
prev_nullresult(H, n, root) ==
    IF H[n].left # Null THEN max(H, H[n].left) ELSE prev_loop(H, n, H[root].left, Null)

\* bNode::prev
prev(H, n, root) ==
    IF H[n].left # Null THEN max(H, H[n].left) ELSE prev_loop(H, n, H[root].left, root)

(* ------------------------- path-copying insert ------------------------ *)

\* persistent_set::insert_impl.  The result carries the heap after the call,
\* the returned shared_ptr (owned once, by the temporary) and the out
\* parameter result.  The temporary returned by the recursive call dies at
\* the end of the full expression, after the new node has copied it.
RECURSIVE insert_impl(_, _, _)
\* A fresh copy of the whole subtree rooted at p (one more owner of the copy
\* is returned).
RECURSIVE CopyTree(_, _)
CopyTree(H, p) ==
    IF p = Null THEN [heap |-> H, ptr |-> Null]
    ELSE LET l == CopyTree(H, H[p].left)
             r == CopyTree(l.heap, H[p].right)
             new == MakeNode(r.heap, l.ptr, r.ptr, get_value(H, p))
         IN [heap |-> Release(Release(new.heap, l.ptr), r.ptr), ptr |-> new.ptr]

\* A variant that copies the subtree beside the path as well, instead of
\* sharing it.
insert_impl_deepcopy(H, pos, value) ==
    IF pos = Null
    THEN LET new == MakeNode(H, Null, Null, value)
         IN [heap |-> new.heap, ptr |-> new.ptr, result |-> new.ptr]
    ELSE IF get_value(H, pos) < value
    THEN LET sub == insert_impl(H, H[pos].right, value)
             side == CopyTree(sub.heap, sub.heap[pos].left)
             new == MakeNode(side.heap, side.ptr, sub.ptr, get_value(sub.heap, pos))
         IN [heap |-> Release(Release(new.heap, sub.ptr), side.ptr),
             ptr |-> new.ptr, result |-> sub.result]
    ELSE LET sub == insert_impl(H, H[pos].left, value)
             side == CopyTree(sub.heap, sub.heap[pos].right)
             new == MakeNode(side.heap, sub.ptr, side.ptr, get_value(sub.heap, pos))
         IN [heap |-> Release(Release(new.heap, sub.ptr), side.ptr),
             ptr |-> new.ptr, result |-> sub.result]

\* A variant that links the new subtree into the visited node itself instead
\* of copying the node.
insert_impl_inplace(H, pos, value) ==
    IF pos = Null
    THEN LET new == MakeNode(H, Null, Null, value)
         IN [heap |-> new.heap, ptr |-> new.ptr, result |-> new.ptr]
    ELSE IF get_value(H, pos) < value
    THEN LET sub == insert_impl(H, H[pos].right, value)
             set == IF sub.ptr = H[pos].right THEN Release(sub.heap, sub.ptr)
                    ELSE [sub.heap EXCEPT ![pos].right = sub.ptr]
         IN [heap |-> Incref(set, pos), ptr |-> pos, result |-> sub.result]
    ELSE LET sub == insert_impl(H, H[pos].left, value)
             set == IF sub.ptr = H[pos].left THEN Release(sub.heap, sub.ptr)
                    ELSE [sub.heap EXCEPT ![pos].left = sub.ptr]
         IN [heap |-> Incref(set, pos), ptr |-> pos, result |-> sub.result]

\* A variant whose comparison is reversed: larger values go left.
insert_impl_wrongside(H, pos, value) ==
    IF pos = Null
    THEN LET new == MakeNode(H, Null, Null, value)
         IN [heap |-> new.heap, ptr |-> new.ptr, result |-> new.ptr]
    ELSE IF get_value(H, pos) > value
    THEN LET sub == insert_impl(H, H[pos].right, value)
             new == MakeNode(sub.heap, sub.heap[pos].left, sub.ptr, get_value(sub.heap, pos))
         IN [heap |-> Release(new.heap, sub.ptr), ptr |-> new.ptr, result |-> sub.result]
    ELSE LET sub == insert_impl(H, H[pos].left, value)
             new == MakeNode(sub.heap, sub.ptr, sub.heap[pos].right, get_value(sub.heap, pos))
         IN [heap |-> Release(new.heap, sub.ptr), ptr |-> new.ptr, result |-> sub.result]

insert_impl(H, pos, value) ==
    IF pos = Null
    THEN LET new == MakeNode(H, Null, Null, value)
         IN [heap |-> new.heap, ptr |-> new.ptr, result |-> new.ptr]
    ELSE IF get_value(H, pos) < value
    THEN LET sub == insert_impl(H, H[pos].right, value)
             new == MakeNode(sub.heap, sub.heap[pos].left, sub.ptr, get_value(sub.heap, pos))
         IN [heap |-> Release(new.heap, sub.ptr), ptr |-> new.ptr, result |-> sub.result]
    ELSE LET sub == insert_impl(H, H[pos].left, value)
             new == MakeNode(sub.heap, sub.ptr, sub.heap[pos].right, get_value(sub.heap, pos))
         IN [heap |-> Release(new.heap, sub.ptr), ptr |-> new.ptr, result |-> sub.result]

(* ------------------------- path-copying erase ------------------------- *)

\* persistent_set::erase_impl.  The result carries the heap after the call
\* and the returned shared_ptr (one more owner of the node it names).
RECURSIVE erase_impl(_, _, _)
\* A variant that, at a node without a right child, returns a fresh copy of
\* the left child instead of the left child itself.
erase_impl_fresh(H, pos, pos2) ==
    IF pos = pos2
    THEN IF H[pos2].right = Null
         THEN IF H[pos2].left = Null
              THEN [heap |-> H, ptr |-> Null]
              ELSE LET c == H[pos2].left
                       new == MakeNode(H, H[c].left, H[c].right, get_value(H, c))
                   IN [heap |-> new.heap, ptr |-> new.ptr]
         ELSE IF H[pos2].left = Null
         THEN [heap |-> Incref(H, H[pos2].right), ptr |-> H[pos2].right]
         ELSE LET minimum == min(H, H[pos].right)
                  sub == erase_impl(H, H[pos].right, minimum)
                  new == MakeNode(sub.heap, sub.heap[pos].left, sub.ptr,
                                  get_value(sub.heap, minimum))
              IN [heap |-> Release(new.heap, sub.ptr), ptr |-> new.ptr]
    ELSE IF get_value(H, pos) < get_value(H, pos2)
    THEN LET sub == erase_impl(H, H[pos].right, pos2)
             new == MakeNode(sub.heap, sub.heap[pos].left, sub.ptr, get_value(sub.heap, pos))
         IN [heap |-> Release(new.heap, sub.ptr), ptr |-> new.ptr]
    ELSE LET sub == erase_impl(H, H[pos].left, pos2)
             new == MakeNode(sub.heap, sub.ptr, sub.heap[pos].right, get_value(sub.heap, pos))
         IN [heap |-> Release(new.heap, sub.ptr), ptr |-> new.ptr]

\* A variant that, at a node without a right child, returns that (absent)
\* right child, losing the left subtree.
erase_impl_dropleft(H, pos, pos2) ==
    IF pos = pos2
    THEN IF H[pos2].right = Null
         THEN [heap |-> H, ptr |-> H[pos2].right]
         ELSE IF H[pos2].left = Null
         THEN [heap |-> Incref(H, H[pos2].right), ptr |-> H[pos2].right]
         ELSE LET minimum == min(H, H[pos].right)
                  sub == erase_impl(H, H[pos].right, minimum)
                  new == MakeNode(sub.heap, sub.heap[pos].left, sub.ptr,
                                  get_value(sub.heap, minimum))
              IN [heap |-> Release(new.heap, sub.ptr), ptr |-> new.ptr]
    ELSE IF get_value(H, pos) < get_value(H, pos2)
    THEN LET sub == erase_impl(H, H[pos].right, pos2)
             new == MakeNode(sub.heap, sub.heap[pos].left, sub.ptr, get_value(sub.heap, pos))
         IN [heap |-> Release(new.heap, sub.ptr), ptr |-> new.ptr]
    ELSE LET sub == erase_impl(H, H[pos].left, pos2)
             new == MakeNode(sub.heap, sub.ptr, sub.heap[pos].right, get_value(sub.heap, pos))
         IN [heap |-> Release(new.heap, sub.ptr), ptr |-> new.ptr]

erase_impl(H, pos, pos2) ==
    IF pos = pos2
    THEN IF H[pos2].right = Null
         THEN [heap |-> Incref(H, H[pos2].left), ptr |-> H[pos2].left]
         ELSE IF H[pos2].left = Null
         THEN [heap |-> Incref(H, H[pos2].right), ptr |-> H[pos2].right]
         ELSE LET minimum == min(H, H[pos].right)
                  sub == erase_impl(H, H[pos].right, minimum)
                  new == MakeNode(sub.heap, sub.heap[pos].left, sub.ptr,
                                  get_value(sub.heap, minimum))
              IN [heap |-> Release(new.heap, sub.ptr), ptr |-> new.ptr]
    ELSE IF get_value(H, pos) < get_value(H, pos2)
    THEN LET sub == erase_impl(H, H[pos].right, pos2)
             new == MakeNode(sub.heap, sub.heap[pos].left, sub.ptr, get_value(sub.heap, pos))
         IN [heap |-> Release(new.heap, sub.ptr), ptr |-> new.ptr]
    ELSE LET sub == erase_impl(H, H[pos].left, pos2)
             new == MakeNode(sub.heap, sub.ptr, sub.heap[pos].right, get_value(sub.heap, pos))
         IN [heap |-> Release(new.heap, sub.ptr), ptr |-> new.ptr]

(* ------------------------------- state -------------------------------- *)

VARIABLES
    heap,    \* the objects on the free store: NodeIds -> cell
    alive,   \* alive[h]: the persistent_set object h is constructed
    tree,    \* tree[h]: the member tree (an owning pointer, Null if none)
    _size,   \* _size[h]: the member _size
    it,      \* the iterator the caller holds (the last one an operation returned)
    last,    \* the operation that ran last, its arguments and its bool result
    elems,   \* elems[h]: the mathematical set h stands for (history variable)
    wr,      \* the insert, erase or clear in progress, when one runs step by step
    rd       \* the find, ++ or -- in progress, when one runs step by step

vars == <<heap, alive, tree, _size, it, last, elems, wr, rd>>

\* The record of an operation: its name, the set it ran on, the value it
\* was given (for erase, the value its iterator refers to) and its outcome
\* (find: found; insert: the bool returned; erase: the tree was rebuilt).
\* For an erase, kids is the number of children of the node erased, rt
\* tells that its iterator is the one the insert just before returned, and
\* deep that the node erased had two children and a right child with a left
\* child (erase_impl copied nodes inside the right subtree).
Op(name, h, v, ok) ==
    [op |-> name, h |-> h, v |-> v, ok |-> ok, kids |-> 0, rt |-> FALSE, deep |-> FALSE]

\* The number of children of node n.
Children(H, n) == Cardinality({H[n].left, H[n].right} \ {Null})

\* The nodes of the subtree rooted at p.
RECURSIVE Subtree(_, _)
Subtree(H, p) ==
    IF p = Null THEN {} ELSE {p} \cup Subtree(H, H[p].left) \cup Subtree(H, H[p].right)

\* The value-bearing nodes of the version anchored at t.
ValueNodes(H, t) == IF t = Null THEN {} ELSE Subtree(H, H[t].left)

\* persistent_set::empty
empty(n) == n = 0

(* The program compares addresses only for equality (operator== of         *)
(* iterators, pos == pos2 in erase_impl, the null tests), so a state is    *)
(* kept as the representative of its class under renaming of addresses:    *)
(* the live objects are numbered in preorder from the anchors of the sets, *)
(* in the order of HandleSeq.                                              *)

RECURSIVE Preorder(_, _)
Preorder(H, p) ==
    IF p = Null THEN <<>> ELSE <<p>> \o Preorder(H, H[p].left) \o Preorder(H, H[p].right)

RECURSIVE Dedup(_, _)
Dedup(seq, seen) ==
    IF seq = <<>> THEN <<>>
    ELSE IF Head(seq) \in seen THEN Dedup(Tail(seq), seen)
    ELSE <<Head(seq)>> \o Dedup(Tail(seq), seen \cup {Head(seq)})

RECURSIVE PreorderAll(_, _, _)
PreorderAll(H, T, i) ==
    IF i > Len(HandleSeq) THEN <<>>
    ELSE Preorder(H, T[HandleSeq[i]]) \o PreorderAll(H, T, i + 1)

\* The addresses in their canonical order: Order(H, T)[k] is renamed to k.
Order(H, T) == Dedup(PreorderAll(H, T, 1) \o [k \in 1..MaxNodes |-> k], {})

\* A raw pointer after the operation: invalid once its object is gone.
Survives(H, p) == IF p \in DOMAIN H /\ ~H[p].live THEN Invalid ELSE p

\* The state an operation leaves (heap H, members T, returned iterator c),
\* with the addresses renamed.
Commit(H, T, c) ==
    LET ord == Order(H, T)
        pi == [n \in NodeIds |-> CHOOSE k \in DOMAIN ord : ord[k] = n]
        to(p) == IF p \in NodeIds THEN pi[p] ELSE p
    IN [heap |-> [k \in NodeIds |->
                    [H[ord[k]] EXCEPT !.left = to(@), !.right = to(@)]],
        tree |-> [h \in Handles |-> to(T[h])],
        it |-> iterator(to(Survives(H, c.node)), to(Survives(H, c.root)))]

\* No mutation in progress.  op, value, at: the call and its argument;
\* tmp: the local tmp_tree; path: the nodes still to be copied, the deepest
\* last; sub, built: the shared_ptr the recursion has returned so far;
\* fresh: the objects allocated and not yet installed; pending: the
\* shared_ptrs being destroyed; freed: the number of objects deallocated;
\* expect: what the call as a whole returns.
NoWriter ==
    [pc |-> "idle", op |-> "none", value |-> NoValue, at |-> Null, tmp |-> Null,
     path |-> <<>>, sub |-> Null, built |-> FALSE, fresh |-> {}, pending |-> <<>>,
     freed |-> 0, expect |-> [heap |-> <<>>, tree |-> Null, size |-> 0]]

\* No read in progress.  op, value, n: the call and its argument (the
\* value for find, the node of the cursor for ++ and --); cur, result: the
\* locals of the loop, then the cursor returned; expect: what the
\* call returns when nothing runs in between; bad: a deallocated or not yet
\* installed object was visited; mid: an object was visited while a
\* mutation was in progress.
NoReader ==
    [pc |-> "idle", op |-> "none", value |-> NoValue, n |-> Null, cur |-> Null,
     result |-> iterator(Null, Null), expect |-> iterator(Null, Null),
     bad |-> FALSE, mid |-> FALSE]

Init ==
    /\ wr = NoWriter
    /\ rd = NoReader
    /\ heap = EmptyHeap
    /\ alive = [h \in Handles |-> FALSE]
    /\ tree = [h \in Handles |-> Null]
    /\ _size = [h \in Handles |-> 0]
    /\ it = iterator(Null, Null)
    /\ last = Op("none", "none", NoValue, FALSE)
    /\ elems = [h \in Handles |-> {}]

\* The heap, the members tree and the iterator held become those of s, by
\* an operation that runs as a whole (none is in progress step by step).
Becomes(s) == heap' = s.heap /\ tree' = s.tree /\ it' = s.it /\ UNCHANGED <<wr, rd>>

\* persistent_set::persistent_set()
Construct(h) ==
    /\ ~alive[h]
    /\ alive' = [alive EXCEPT ![h] = TRUE]
    /\ Becomes(Commit(heap, [tree EXCEPT ![h] = Null], it))
    /\ _size' = [_size EXCEPT ![h] = 0]
    /\ elems' = [elems EXCEPT ![h] = {}]
    /\ last' = Op("construct", h, NoValue, FALSE)

\* A variant in which the copy takes the pointer without becoming an owner
\* of the anchor.
CopyConstruct_borrow(h, other) ==
    /\ ~alive[h]
    /\ alive[other]
    /\ alive' = [alive EXCEPT ![h] = TRUE]
    /\ Becomes(Commit(heap, [tree EXCEPT ![h] = tree[other]], it))
    /\ _size' = [_size EXCEPT ![h] = _size[other]]
    /\ elems' = [elems EXCEPT ![h] = elems[other]]
    /\ last' = Op("copy", h, NoValue, FALSE)

\* persistent_set::persistent_set(persistent_set const &other)
CopyConstruct(h, other) ==
    /\ ~alive[h]
    /\ alive[other]
    /\ alive' = [alive EXCEPT ![h] = TRUE]
    /\ Becomes(Commit(Incref(heap, tree[other]), [tree EXCEPT ![h] = tree[other]], it))
    /\ _size' = [_size EXCEPT ![h] = _size[other]]
    /\ elems' = [elems EXCEPT ![h] = elems[other]]
    /\ last' = Op("copy", h, NoValue, FALSE)

\* The implicit destructor: the member tree is destroyed.
Destroy(h) ==
    /\ alive[h]
    /\ alive' = [alive EXCEPT ![h] = FALSE]
    /\ Becomes(Commit(Release(heap, tree[h]), [tree EXCEPT ![h] = Null], it))
    /\ _size' = [_size EXCEPT ![h] = 0]
    /\ elems' = [elems EXCEPT ![h] = {}]
    /\ last' = Op("destroy", h, NoValue, FALSE)

\* A variant that forgets the anchor without giving up its ownership.
clear_leak(H, t, n) == [heap |-> H, tree |-> Null, size |-> 0]

\* A variant that leaves _size as it was.
clear_keepsize(H, t, n) == [heap |-> Release(H, t), tree |-> Null, size |-> n]

\* persistent_set::clear: the heap, the member tree and the member _size
\* after the call.
clear(H, t, n) == [heap |-> Release(H, t), tree |-> Null, size |-> 0]

Clear(h) ==
    /\ alive[h]
    /\ LET r == clear(heap, tree[h], _size[h])
       IN /\ Becomes(Commit(r.heap, [tree EXCEPT ![h] = r.tree], it))
          /\ _size' = [_size EXCEPT ![h] = r.size]
    /\ elems' = [elems EXCEPT ![h] = {}]
    /\ last' = Op("clear", h, NoValue, FALSE)
    /\ UNCHANGED alive

\* persistent_set::swap
Swap(h, other) ==
    /\ alive[h] /\ alive[other] /\ h # other
    /\ Becomes(Commit(heap, [tree EXCEPT ![h] = tree[other], ![other] = tree[h]], it))
    /\ _size' = [_size EXCEPT ![h] = _size[other], ![other] = _size[h]]
    /\ elems' = [elems EXCEPT ![h] = elems[other], ![other] = elems[h]]
    /\ last' = Op("swap", h, NoValue, FALSE)
    /\ UNCHANGED alive

\* persistent_set::find, the caller keeping the iterator it returns
Find(h, value) ==
    /\ alive[h]
    /\ LET res == find(heap, tree[h], value)
       IN /\ Becomes(Commit(heap, tree, res))
          /\ last' = Op("find", h, value, ~SameCursor(res, end(tree[h])))
    /\ UNCHANGED <<alive, _size, elems>>

\* persistent_set::tree_
tree_(H, t) == IF t = Null THEN MakeAnchor(H) ELSE [heap |-> H, ptr |-> t]

\* A variant that builds the returned iterator before the new anchor is
\* installed, with the anchor of the old version.
insert_staleroot(H, t, n, value) ==
    LET t0 == tree_(H, t)
        res == find(t0.heap, t0.ptr, value)
    IN IF ~SameCursor(res, end(t0.ptr))
       THEN [heap |-> t0.heap, tree |-> t0.ptr, size |-> n, first |-> res, second |-> FALSE]
       ELSE LET tmp_tree == MakeAnchor(t0.heap)
                sub == insert_impl(tmp_tree.heap, t0.heap[t0.ptr].left, value)
                linked == [sub.heap EXCEPT ![tmp_tree.ptr].left = sub.ptr]
            IN [heap |-> Release(linked, t0.ptr), tree |-> tmp_tree.ptr, size |-> n + 1,
                first |-> iterator(sub.result, t0.ptr), second |-> TRUE]

\* A variant that inserts without looking the value up first.
insert_nocheck(H, t, n, value) ==
    LET t0 == tree_(H, t)
        tmp_tree == MakeAnchor(t0.heap)
        sub == insert_impl(tmp_tree.heap, t0.heap[t0.ptr].left, value)
        linked == [sub.heap EXCEPT ![tmp_tree.ptr].left = sub.ptr]
    IN [heap |-> Release(linked, t0.ptr), tree |-> tmp_tree.ptr, size |-> n + 1,
        first |-> iterator(sub.result, tmp_tree.ptr), second |-> TRUE]

\* persistent_set::insert: the heap, the member tree, the member _size and
\* the returned pair after the call.
insert(H, t, n, value) ==
    LET t0 == tree_(H, t)
        res == find(t0.heap, t0.ptr, value)
    IN IF ~SameCursor(res, end(t0.ptr))
       THEN [heap |-> t0.heap, tree |-> t0.ptr, size |-> n, first |-> res, second |-> FALSE]
       ELSE LET tmp_tree == MakeAnchor(t0.heap)
                sub == insert_impl(tmp_tree.heap, t0.heap[t0.ptr].left, value)
                linked == [sub.heap EXCEPT ![tmp_tree.ptr].left = sub.ptr]
            IN [heap |-> Release(linked, t0.ptr), tree |-> tmp_tree.ptr, size |-> n + 1,
                first |-> iterator(sub.result, tmp_tree.ptr), second |-> TRUE]

Insert(h, value) ==
    /\ alive[h]
    /\ LET r == insert(heap, tree[h], _size[h], value)
       IN /\ Becomes(Commit(r.heap, [tree EXCEPT ![h] = r.tree], r.first))
          /\ _size' = [_size EXCEPT ![h] = r.size]
          /\ last' = Op("insert", h, value, r.second)
    /\ elems' = [elems EXCEPT ![h] = @ \cup {value}]
    /\ UNCHANGED alive

\* A variant that does not decrement _size.
erase_nodec(H, t, n, pos2) ==
    IF t # Null /\ H[t].left # Null
    THEN LET tmp_tree == MakeAnchor(H)
             sub == erase_impl(tmp_tree.heap, H[t].left, pos2)
             linked == [sub.heap EXCEPT ![tmp_tree.ptr].left = sub.ptr]
         IN [heap |-> Release(linked, t), tree |-> tmp_tree.ptr, size |-> n]
    ELSE [heap |-> H, tree |-> t, size |-> n]

\* A variant that never gives up the anchor of the version before.
erase_leak(H, t, n, pos2) ==
    IF t # Null /\ H[t].left # Null
    THEN LET tmp_tree == MakeAnchor(H)
             sub == erase_impl(tmp_tree.heap, H[t].left, pos2)
             linked == [sub.heap EXCEPT ![tmp_tree.ptr].left = sub.ptr]
         IN [heap |-> linked, tree |-> tmp_tree.ptr, size |-> n - 1]
    ELSE [heap |-> H, tree |-> t, size |-> n]

\* persistent_set::erase: the heap, the member tree and the member _size
\* after the call.  _size-- is kept as a mathematical integer: a negative
\* result stands for the wrapped size_t.
erase(H, t, n, pos2) ==
    IF t # Null /\ H[t].left # Null
    THEN LET tmp_tree == MakeAnchor(H)
             sub == erase_impl(tmp_tree.heap, H[t].left, pos2)
             linked == [sub.heap EXCEPT ![tmp_tree.ptr].left = sub.ptr]
         IN [heap |-> Release(linked, t), tree |-> tmp_tree.ptr, size |-> n - 1]
    ELSE [heap |-> H, tree |-> t, size |-> n]

\* The iterator c can be dereferenced in the version anchored at t: its node
\* is a value-bearing node of that version.
Dereferenceable(H, t, c) == c.node \in ValueNodes(H, t)

\* erase(it) with the iterator the caller holds.  The caller's contract: on
\* a non-empty set the iterator refers to an element of the current version
\* (on an empty set erase returns at once, whatever the iterator).
Erase(h) ==
    /\ alive[h]
    /\ (tree[h] # Null /\ heap[tree[h]].left # Null) => Dereferenceable(heap, tree[h], it)
    /\ LET r == erase(heap, tree[h], _size[h], it.node)
           x == IF Dereferenceable(heap, tree[h], it) THEN get_value(heap, it.node)
                ELSE NoValue
       IN /\ Becomes(Commit(r.heap, [tree EXCEPT ![h] = r.tree], it))
          /\ _size' = [_size EXCEPT ![h] = r.size]
          /\ last' = [Op("erase", h, x, r.tree # tree[h]) EXCEPT
                        !.kids = IF x = NoValue THEN 0 ELSE Children(heap, it.node),
                        !.rt = last.op = "insert" /\ last.ok /\ last.h = h,
                        !.deep = /\ x # NoValue
                                 /\ Children(heap, it.node) = 2
                                 /\ heap[heap[it.node].right].left # Null]
          /\ elems' = [elems EXCEPT ![h] = @ \ {x}]
    /\ UNCHANGED alive

\* persistent_set::begin, the caller keeping the iterator
Begin(h) ==
    /\ alive[h]
    /\ Becomes(Commit(heap, tree, begin(heap, tree[h])))
    /\ last' = Op("begin", h, NoValue, FALSE)
    /\ UNCHANGED <<alive, _size, elems>>

\* persistent_set::end, the caller keeping the iterator
End(h) ==
    /\ alive[h]
    /\ Becomes(Commit(heap, tree, end(tree[h])))
    /\ last' = Op("end", h, NoValue, FALSE)
    /\ UNCHANGED <<alive, _size, elems>>

\* The iterator c refers to live objects of one version: its anchor is
\* allocated and its node is the anchor or a node of the tree under it.
InVersion(H, c) ==
    /\ c.root \in DOMAIN H
    /\ H[c.root].live
    /\ c.node \in {c.root} \cup ValueNodes(H, c.root)

\* iterator::operator++ on the iterator the caller holds (not on end()).
Increment ==
    /\ InVersion(heap, it)
    /\ it.node # it.root
    /\ Becomes(Commit(heap, tree, iterator(next(heap, it.node, it.root), it.root)))
    /\ last' = Op("inc", "none", NoValue, FALSE)
    /\ UNCHANGED <<alive, _size, elems>>

\* iterator::operator-- on the iterator the caller holds (not on the end()
\* of an empty set).
Decrement ==
    /\ InVersion(heap, it)
    /\ it.node = it.root => heap[it.root].left # Null
    /\ Becomes(Commit(heap, tree, iterator(prev(heap, it.node, it.root), it.root)))
    /\ last' = Op("dec", "none", NoValue, FALSE)
    /\ UNCHANGED <<alive, _size, elems>>

Next ==
    \/ \E h \in Handles : Construct(h)
    \/ \E h, other \in Handles : CopyConstruct(h, other)
    \/ \E h \in Handles : Destroy(h)
    \/ \E h \in Handles : Clear(h)
    \/ \E h, other \in Handles : Swap(h, other)
    \/ \E h \in Handles, value \in Values : Find(h, value)
    \/ \E h \in Handles, value \in Values : Insert(h, value)
    \/ \E h \in Handles : Erase(h)
    \/ \E h \in Handles : Begin(h)
    \/ \E h \in Handles : End(h)
    \/ Increment
    \/ Decrement

Spec == Init /\ [][Next]_vars

(* ------------------------- allocation failure -------------------------- *)
(* std::make_shared throws std::bad_alloc when the free store is           *)
(* exhausted.  In the operators below k is the number of allocations that  *)
(* still succeed; the next one throws.  A result carries thrown, and when  *)
(* an exception leaves a function the temporaries and locals that own      *)
(* objects are destroyed.                                                  *)

AllocBudgets == 0..(MaxVal + 2)

\* std::make_shared<node>(l, r, v) with k allocations left.
MakeNodeOrThrow(H, l, r, v, k) ==
    IF k = 0 THEN [heap |-> H, ptr |-> Null, thrown |-> TRUE, k |-> 0]
    ELSE LET new == MakeNode(H, l, r, v)
         IN [heap |-> new.heap, ptr |-> new.ptr, thrown |-> FALSE, k |-> k - 1]

\* persistent_set::insert_impl with k allocations left.
RECURSIVE insert_impl_throws(_, _, _, _)
insert_impl_throws(H, pos, value, k) ==
    IF pos = Null
    THEN LET new == MakeNodeOrThrow(H, Null, Null, value, k)
         IN [heap |-> new.heap, ptr |-> new.ptr, result |-> new.ptr,
             thrown |-> new.thrown, k |-> new.k]
    ELSE LET right == get_value(H, pos) < value
             sub == insert_impl_throws(H, IF right THEN H[pos].right ELSE H[pos].left, value, k)
         IN IF sub.thrown THEN sub
            ELSE LET new == IF right
                            THEN MakeNodeOrThrow(sub.heap, sub.heap[pos].left, sub.ptr,
                                                 get_value(sub.heap, pos), sub.k)
                            ELSE MakeNodeOrThrow(sub.heap, sub.ptr, sub.heap[pos].right,
                                                 get_value(sub.heap, pos), sub.k)
                 IN [heap |-> Release(new.heap, sub.ptr), ptr |-> new.ptr,
                     result |-> sub.result, thrown |-> new.thrown, k |-> new.k]

\* persistent_set::erase_impl with k allocations left.
RECURSIVE erase_impl_throws(_, _, _, _)
erase_impl_throws(H, pos, pos2, k) ==
    IF pos = pos2 /\ H[pos2].right = Null
    THEN [heap |-> Incref(H, H[pos2].left), ptr |-> H[pos2].left, thrown |-> FALSE, k |-> k]
    ELSE IF pos = pos2 /\ H[pos2].left = Null
    THEN [heap |-> Incref(H, H[pos2].right), ptr |-> H[pos2].right, thrown |-> FALSE, k |-> k]
    ELSE LET minimum == min(H, H[pos].right)
             right == pos = pos2 \/ get_value(H, pos) < get_value(H, pos2)
             sub == IF pos = pos2 THEN erase_impl_throws(H, H[pos].right, minimum, k)
                    ELSE IF right THEN erase_impl_throws(H, H[pos].right, pos2, k)
                    ELSE erase_impl_throws(H, H[pos].left, pos2, k)
             v == IF pos = pos2 THEN get_value(H, minimum) ELSE get_value(H, pos)
         IN IF sub.thrown THEN sub
            ELSE LET new == IF right
                            THEN MakeNodeOrThrow(sub.heap, sub.heap[pos].left, sub.ptr, v, sub.k)
                            ELSE MakeNodeOrThrow(sub.heap, sub.ptr, sub.heap[pos].right, v, sub.k)
                 IN [heap |-> Release(new.heap, sub.ptr), ptr |-> new.ptr,
                     thrown |-> new.thrown, k |-> new.k]

\* persistent_set::insert with k allocations left: the heap, the member
\* tree and the member _size when the call returns or throws.  tree_()
\* assigns the member tree before anything else is allocated.
insert_throws(H, t, n, value, k) ==
    LET t0 == IF t = Null THEN MakeNodeOrThrow(H, Null, Null, NoValue, k)
              ELSE [heap |-> H, ptr |-> t, thrown |-> FALSE, k |-> k]
    IN IF t0.thrown
       THEN [heap |-> H, tree |-> t, size |-> n, thrown |-> TRUE]
       ELSE IF ~SameCursor(find(t0.heap, t0.ptr, value), end(t0.ptr))
       THEN [heap |-> t0.heap, tree |-> t0.ptr, size |-> n, thrown |-> FALSE]
       ELSE LET tmp_tree == MakeNodeOrThrow(t0.heap, Null, Null, NoValue, t0.k)
            IN IF tmp_tree.thrown
               THEN [heap |-> t0.heap, tree |-> t0.ptr, size |-> n, thrown |-> TRUE]
               ELSE LET sub == insert_impl_throws(tmp_tree.heap, t0.heap[t0.ptr].left,
                                                  value, tmp_tree.k)
                        linked == [sub.heap EXCEPT ![tmp_tree.ptr].left = sub.ptr]
                    IN IF sub.thrown
                       THEN [heap |-> Release(sub.heap, tmp_tree.ptr), tree |-> t0.ptr,
                             size |-> n, thrown |-> TRUE]
                       ELSE [heap |-> Release(linked, t0.ptr), tree |-> tmp_tree.ptr,
                             size |-> n + 1, thrown |-> FALSE]

\* persistent_set::erase with k allocations left.
erase_throws(H, t, n, pos2, k) ==
    IF t # Null /\ H[t].left # Null
    THEN LET tmp_tree == MakeNodeOrThrow(H, Null, Null, NoValue, k)
         IN IF tmp_tree.thrown
            THEN [heap |-> H, tree |-> t, size |-> n, thrown |-> TRUE]
            ELSE LET sub == erase_impl_throws(tmp_tree.heap, H[t].left, pos2, tmp_tree.k)
                     linked == [sub.heap EXCEPT ![tmp_tree.ptr].left = sub.ptr]
                 IN IF sub.thrown
                    THEN [heap |-> Release(sub.heap, tmp_tree.ptr), tree |-> t,
                          size |-> n, thrown |-> TRUE]
                    ELSE [heap |-> Release(linked, t), tree |-> tmp_tree.ptr,
                          size |-> n - 1, thrown |-> FALSE]
    ELSE [heap |-> H, tree |-> t, size |-> n, thrown |-> FALSE]

\* insert(value) on set h throws std::bad_alloc at its (k + 1)-th allocation.
\* The caller gets no iterator and keeps the one it holds.
InsertThrows(h, value, k) ==
    /\ alive[h]
    /\ LET r == insert_throws(heap, tree[h], _size[h], value, k)
       IN /\ r.thrown
          /\ Becomes(Commit(r.heap, [tree EXCEPT ![h] = r.tree], it))
          /\ _size' = [_size EXCEPT ![h] = r.size]
    /\ last' = Op("insert throws", h, value, FALSE)
    /\ UNCHANGED <<alive, elems>>

\* erase(it) on set h throws std::bad_alloc at its (k + 1)-th allocation.
EraseThrows(h, k) ==
    /\ alive[h]
    /\ Dereferenceable(heap, tree[h], it)
    /\ LET r == erase_throws(heap, tree[h], _size[h], it.node, k)
       IN /\ r.thrown
          /\ Becomes(Commit(r.heap, [tree EXCEPT ![h] = r.tree], it))
          /\ _size' = [_size EXCEPT ![h] = r.size]
    /\ last' = Op("erase throws", h, get_value(heap, it.node), FALSE)
    /\ UNCHANGED <<alive, elems>>

NextAlloc ==
    \/ Next
    \/ \E h \in Handles, value \in Values, k \in AllocBudgets : InsertThrows(h, value, k)
    \/ \E h \in Handles, k \in AllocBudgets : EraseThrows(h, k)

\* The program in an environment where allocations can fail.
SpecAlloc == Init /\ [][NextAlloc]_vars

(* One set over a larger range of values, for the cases that need trees of *)
(* four and five nodes (a set alone never needs more than 2 * n + 1        *)
(* objects for n values, which NodeIds provides).                          *)

DeepValues == 1..(MaxVal + 2)

NextDeep ==
    \/ Construct(HandleSeq[1])
    \/ Destroy(HandleSeq[1])
    \/ Clear(HandleSeq[1])
    \/ \E value \in DeepValues : Find(HandleSeq[1], value)
    \/ \E value \in DeepValues : Insert(HandleSeq[1], value)
    \/ Erase(HandleSeq[1])
    \/ Begin(HandleSeq[1])
    \/ End(HandleSeq[1])
    \/ Increment
    \/ Decrement

SpecDeep == Init /\ [][NextDeep]_vars

(* --------------------------- observations ----------------------------- *)

\* The elements stored in the version anchored at t.
Elements(H, t) == {get_value(H, n) : n \in ValueNodes(H, t)}

\* for (it = first; it != end(); ++it): the nodes visited, in order.  A
\* walk that faults, or that has not ended after fuel steps, ends in Fault.
RECURSIVE Walk(_, _, _, _)
Walk(H, n, root, fuel) ==
    IF n = root THEN <<>>
    ELSE IF n = Fault \/ fuel = 0 THEN <<Fault>>
    ELSE <<n>> \o Walk(H, next(H, n, root), root, fuel - 1)

\* The traversal from begin() to end().
Forward(H, t) == Walk(H, begin(H, t).node, t, MaxNodes)

\* for (r = rbegin(); r != rend(); ++r) with std::reverse_iterator: *r is
\* the element before r.base(), ++r decrements the base, and r == rend()
\* when the base is begin().  The nodes visited, in order.
RECURSIVE ReverseWalk(_, _, _, _, _)
ReverseWalk(H, base, first, root, fuel) ==
    IF base = first THEN <<>>
    ELSE LET p == prev(H, base, root)
         IN IF p = Fault \/ fuel = 0 THEN <<Fault>>
            ELSE <<p>> \o ReverseWalk(H, p, first, root, fuel - 1)

\* The traversal from rbegin() to rend().
Backward(H, t) == ReverseWalk(H, t, begin(H, t).node, t, MaxNodes)

\* operator* along a walk.
Deref(H, walk) == [i \in DOMAIN walk |-> IF walk[i] = Fault THEN Fault ELSE get_value(H, walk[i])]

StrictlyAscending(seq) == \A i \in 1..(Len(seq) - 1) : seq[i] < seq[i + 1]

StrictlyDescending(seq) == \A i \in 1..(Len(seq) - 1) : seq[i] > seq[i + 1]

Range(seq) == {seq[i] : i \in DOMAIN seq}

\* What a caller can observe of the set with members t and n on heap H:
\* its cardinality, what find returns for every value, and its traversals
\* (the nodes visited and the values read).
View(H, t, n) ==
    [size |-> n,
     found |-> [v \in Values |-> find(H, t, v)],
     forward |-> Forward(H, t),
     values |-> Deref(H, Forward(H, t)),
     backward |-> Backward(H, t)]

\* An operation that only returns the iterator c leaves every object and
\* every set as it is.
ReadOnly(c) == Commit(heap, tree, c).heap = heap /\ Commit(heap, tree, c).tree = tree

\* The sets other than a that are alive.
Others(a) == {b \in Handles : b # a /\ alive[b]}

(* ------------------------------ claims -------------------------------- *)

\* C1 (persistence).  In every reachable state, for every set a and every
\* other live set b (a copy of a in particular), whichever insert, erase or
\* clear is applied to a next, b is observed exactly as before: the same
\* cardinality, the same iterator from find for every value, the same
\* traversals over the same nodes.  When b still shares a's anchor and x is
\* not in a, after a.insert(x) b.find(x) is b's end() and a's traversal is
\* ascending and holds x.
Persistence ==
    \A a \in Handles : alive[a] =>
      \A b \in Others(a) :
        LET before == View(heap, tree[b], _size[b])
            same(H) == View(H, tree[b], _size[b]) = before
        IN /\ \A x \in Values :
                LET r == insert(heap, tree[a], _size[a], x)
                IN /\ same(r.heap)
                   /\ (tree[b] = tree[a] /\ x \notin Elements(heap, tree[a])) =>
                        /\ find(r.heap, tree[b], x) = end(tree[b])
                        /\ StrictlyAscending(Deref(r.heap, Forward(r.heap, r.tree)))
                        /\ Range(Deref(r.heap, Forward(r.heap, r.tree)))
                             = Elements(heap, tree[a]) \cup {x}
           /\ \A x \in Elements(heap, tree[a]) :
                same(erase(heap, tree[a], _size[a], find(heap, tree[a], x).node).heap)
           /\ same(clear(heap, tree[a], _size[a]).heap)

\* A successful insert has just run on a set while another live, non-empty
\* set that does not hold the inserted value shares nodes with it.
PersistenceWitness ==
    /\ last.op = "insert" /\ last.ok
    /\ \E b \in Others(last.h) :
         /\ _size[b] > 0
         /\ last.v \notin Elements(heap, tree[b])
         /\ ValueNodes(heap, tree[b]) \cap ValueNodes(heap, tree[last.h]) # {}

\* The values of the subtree rooted at p, left to right.
RECURSIVE InOrder(_, _)
InOrder(H, p) ==
    IF p = Null THEN <<>>
    ELSE InOrder(H, H[p].left) \o <<get_value(H, p)>> \o InOrder(H, H[p].right)

\* C2 (ordering invariant).  In every reachable state the tree under the
\* anchor of every live set is a binary search tree without duplicates:
\* at every node the values of the left subtree are smaller and those of
\* the right subtree larger, and the in-order sequence is strictly ascending.
OrderingInvariant ==
    \A h \in Handles : alive[h] /\ tree[h] # Null =>
      /\ \A n \in ValueNodes(heap, tree[h]) :
           /\ \A m \in Subtree(heap, heap[n].left) : get_value(heap, m) < get_value(heap, n)
           /\ \A m \in Subtree(heap, heap[n].right) : get_value(heap, m) > get_value(heap, n)
      /\ StrictlyAscending(InOrder(heap, heap[tree[h]].left))
      /\ Cardinality(Elements(heap, tree[h])) = Cardinality(ValueNodes(heap, tree[h]))

\* An erase has just replaced a node with two children by a node holding
\* its successor, in a set that another live set shares nodes with.
OrderingWitness ==
    /\ last.op = "erase" /\ last.ok /\ last.kids = 2
    /\ _size[last.h] >= 2
    /\ \E b \in Others(last.h) :
         ValueNodes(heap, tree[b]) \cap ValueNodes(heap, tree[last.h]) # {}

\* C3 (find against the abstract set).  In every reachable state, for every
\* live set and every value v: if v was inserted and not erased or cleared
\* since (v is in elems), find(v) is an iterator of this version on a live
\* node holding v; otherwise it is end().  The call leaves the heap and the
\* members of every set as they are.
FindAgrees ==
    \A h \in Handles : alive[h] =>
      \A v \in Values :
        LET c == find(heap, tree[h], v)
        IN /\ IF v \in elems[h]
              THEN /\ c.root = tree[h]
                   /\ c.node \in ValueNodes(heap, tree[h])
                   /\ heap[c.node].live
                   /\ get_value(heap, c.node) = v
              ELSE c = end(tree[h])
           /\ ReadOnly(c)

\* find has just returned a node below the root of a set from which a value
\* was erased.
FindWitness ==
    /\ last.op = "find" /\ last.ok
    /\ it.root = tree[last.h]
    /\ it.node # heap[tree[last.h]].left
    /\ get_value(heap, it.node) = last.v
    /\ elems[last.h] # Values

\* C4 (successful insert).  In every reachable state, for every live set
\* (with or without an anchor) and every value x not in it, insert(x) returns
\* (c, true) where c is an iterator of the new version (its anchor is the
\* set's new anchor) on a node created by the call that holds x, equal to
\* what find(x) returns afterwards; _size grows by exactly 1 and the
\* elements are the old ones plus x.
SuccessfulInsert ==
    \A h \in Handles : alive[h] =>
      \A x \in Values \ elems[h] :
        LET r == insert(heap, tree[h], _size[h], x)
            c == r.first
        IN /\ r.second
           /\ c.root = r.tree
           /\ c.node \in ValueNodes(r.heap, r.tree)
           /\ ~heap[c.node].live
           /\ r.heap[c.node].live
           /\ get_value(r.heap, c.node) = x
           /\ c = find(r.heap, r.tree, x)
           /\ r.size = _size[h] + 1
           /\ Elements(r.heap, r.tree) = Elements(heap, tree[h]) \cup {x}
           /\ Cardinality(ValueNodes(r.heap, r.tree))
                = Cardinality(ValueNodes(heap, tree[h])) + 1

\* A successful insert into a set of at least one element has just returned
\* an iterator of the set's version on the node holding the value.
SuccessfulInsertWitness ==
    /\ last.op = "insert" /\ last.ok
    /\ _size[last.h] >= 2
    /\ it.root = tree[last.h]
    /\ get_value(heap, it.node) = last.v

\* The scenario of the specification: 5, 3, 8, 1, 4 into an empty set, then
\* erase of the node holding 5.
ScenarioValues == <<5, 3, 8, 1, 4>>

ScenarioStart ==
    [heap |-> [n \in 1..(2 * (Len(ScenarioValues) + 1)) |-> FreeCell], tree |-> Null, size |-> 0]

RECURSIVE InsertAll(_, _)
InsertAll(s, seq) ==
    IF seq = <<>> THEN s
    ELSE InsertAll(insert(s.heap, s.tree, s.size, Head(seq)), Tail(seq))

ScenarioBuilt == InsertAll(ScenarioStart, ScenarioValues)

ScenarioErased ==
    erase(ScenarioBuilt.heap, ScenarioBuilt.tree, ScenarioBuilt.size,
          find(ScenarioBuilt.heap, ScenarioBuilt.tree, 5).node)

\* C5 (erase removes exactly the designated element).  In every reachable
\* state, for every live set and every element x of it, erase of the
\* iterator find(x) returns leaves the elements without x and nothing else
\* missing, one value node fewer and _size smaller by exactly 1, whatever
\* the number of children of the node; and the scenario 5, 3, 8, 1, 4 then
\* erase of 5 is traversed as 1, 3, 4, 8.
EraseRemoves ==
    /\ \A h \in Handles : alive[h] =>
         \A x \in elems[h] :
           LET c == find(heap, tree[h], x)
               r == erase(heap, tree[h], _size[h], c.node)
           IN /\ Elements(r.heap, r.tree) = Elements(heap, tree[h]) \ {x}
              /\ Cardinality(ValueNodes(r.heap, r.tree))
                   = Cardinality(ValueNodes(heap, tree[h])) - 1
              /\ r.size = _size[h] - 1
              /\ Range(Deref(r.heap, Forward(r.heap, r.tree))) = elems[h] \ {x}
    /\ Deref(ScenarioBuilt.heap, Forward(ScenarioBuilt.heap, ScenarioBuilt.tree))
         = <<1, 3, 4, 5, 8>>
    /\ Deref(ScenarioErased.heap, Forward(ScenarioErased.heap, ScenarioErased.tree))
         = <<1, 3, 4, 8>>
    /\ ScenarioErased.size = 4

\* An erase of a node with two children has just run and left the two
\* other elements.
EraseWitness ==
    /\ last.op = "erase" /\ last.ok /\ last.kids = 2
    /\ _size[last.h] = 2
    /\ last.v \notin Elements(heap, tree[last.h])
    /\ Cardinality(Elements(heap, tree[last.h])) = 2

\* C6 (duplicate insert).  In every reachable state, for every live set and
\* every element x of it, insert(x) returns (c, false) with c the iterator
\* on the existing node holding x, and leaves _size, the anchor and every
\* object on the heap as they were.
DuplicateInsert ==
    \A h \in Handles : alive[h] =>
      \A x \in elems[h] :
        LET r == insert(heap, tree[h], _size[h], x)
        IN /\ ~r.second
           /\ r.first = find(heap, tree[h], x)
           /\ r.first.node \in ValueNodes(heap, tree[h])
           /\ get_value(heap, r.first.node) = x
           /\ r.size = _size[h]
           /\ r.tree = tree[h]
           /\ r.heap = heap

\* An insert of a value already in the set has just returned false and the
\* iterator on the node holding it.
DuplicateInsertWitness ==
    /\ last.op = "insert" /\ ~last.ok
    /\ it.root = tree[last.h]
    /\ it.node \in ValueNodes(heap, tree[last.h])
    /\ get_value(heap, it.node) = last.v

\* C7 (round trip).  In every reachable state, for every live set and every
\* x not in it, insert(x) followed by erase of the iterator insert returned
\* gives back the _size from before the insert, makes find(x) return end(),
\* and leaves the traversal reading the values it read before the insert.
RoundTrip ==
    \A h \in Handles : alive[h] =>
      \A x \in Values \ elems[h] :
        LET r1 == insert(heap, tree[h], _size[h], x)
            r2 == erase(r1.heap, r1.tree, r1.size, r1.first.node)
        IN /\ r2.size = _size[h]
           /\ find(r2.heap, r2.tree, x) = end(r2.tree)
           /\ Deref(r2.heap, Forward(r2.heap, r2.tree)) = Deref(heap, Forward(heap, tree[h]))

\* An erase has just run with the iterator that the successful insert right
\* before it returned, on a set that keeps other elements.
RoundTripWitness ==
    /\ last.op = "erase" /\ last.ok /\ last.rt
    /\ _size[last.h] >= 1
    /\ last.v \notin elems[last.h]

\* The sequence seq backwards.
Reverse(seq) == [i \in DOMAIN seq |-> seq[Len(seq) + 1 - i]]

\* C8 (traversal).  In every reachable state, for every live set: the walk
\* from begin() by ++ reaches end() after exactly _size steps without
\* faulting, visits every value node exactly once and reads strictly
\* ascending values, which are the elements; the walk from rbegin() to
\* rend() visits the same nodes in the opposite order, reading strictly
\* descending values.  begin() and every step leave the heap as it is, so
\* the walk can be repeated with the same result.
Traversal ==
    \A h \in Handles : alive[h] =>
      LET f == Forward(heap, tree[h])
          b == Backward(heap, tree[h])
      IN /\ Fault \notin Range(f)
         /\ Len(f) = _size[h]
         /\ Range(f) = ValueNodes(heap, tree[h])
         /\ Cardinality(Range(f)) = Len(f)
         /\ StrictlyAscending(Deref(heap, f))
         /\ Range(Deref(heap, f)) = elems[h]
         /\ b = Reverse(f)
         /\ StrictlyDescending(Deref(heap, b))
         /\ ReadOnly(begin(heap, tree[h]))
         /\ \A i \in DOMAIN f : ReadOnly(iterator(next(heap, f[i], tree[h]), tree[h]))

\* ++ has just moved an iterator onto end() in a set of at least three
\* elements.
TraversalWitness ==
    /\ last.op = "inc"
    /\ \E h \in Handles :
         /\ alive[h] /\ _size[h] >= 3
         /\ it.root = tree[h] /\ it.node = tree[h]

\* The largest value of a non-empty set of values.
Maximum(S) == CHOOSE x \in S : \A y \in S : y <= x

\* C9 (boundary positions).  In every reachable state, for every live set:
\* begin() == end() exactly when empty(); and when the set is not empty,
\* --end() is the iterator on the node holding the largest element, and ++
\* of that iterator is end().
BoundaryPositions ==
    \A h \in Handles : alive[h] =>
      LET t == tree[h]
      IN /\ SameCursor(begin(heap, t), end(t)) <=> empty(_size[h])
         /\ ~empty(_size[h]) =>
              /\ t # Null
              /\ heap[t].left # Null
              /\ elems[h] # {}
              /\ LET m == prev(heap, t, t)
                 IN /\ m \in ValueNodes(heap, t)
                    /\ get_value(heap, m) = Maximum(elems[h])
                    /\ next(heap, m, t) = t

\* begin() has just returned end() on a set that erase emptied (it keeps an
\* anchor without a root), while the other set is not empty.
BoundaryWitness ==
    /\ last.op = "begin"
    /\ tree[last.h] # Null
    /\ heap[tree[last.h]].left = Null
    /\ it = end(tree[last.h])
    /\ \E b \in Others(last.h) : ~empty(_size[b])

\* C10 (cardinality invariant).  In every reachable state, for every live
\* set, _size is the number of value nodes reachable from its anchor (0
\* without an anchor), is not negative (never wrapped), and empty() is true
\* exactly when that number is 0.
CardinalityInvariant ==
    \A h \in Handles : alive[h] =>
      /\ _size[h] = Cardinality(ValueNodes(heap, tree[h]))
      /\ _size[h] >= 0
      /\ empty(_size[h]) <=> ValueNodes(heap, tree[h]) = {}
      /\ tree[h] = Null => _size[h] = 0

\* erase has just returned at once on a set emptied by erase (no decrement),
\* while the other set holds elements.
CardinalityWitness ==
    /\ last.op = "erase" /\ ~last.ok
    /\ tree[last.h] # Null
    /\ _size[last.h] = 0
    /\ \E b \in Others(last.h) : _size[b] >= 2

(* ------------------------- structural sharing ------------------------- *)

\* The nodes insert_impl visits on its way down from pos for a value that
\* is not stored: at each node it goes right if the node's value is less
\* than the value, left otherwise, until it meets an absent child.
RECURSIVE SearchPath(_, _, _)
SearchPath(H, pos, value) ==
    IF pos = Null THEN <<>>
    ELSE IF get_value(H, pos) < value
    THEN <<pos>> \o SearchPath(H, H[pos].right, value)
    ELSE <<pos>> \o SearchPath(H, H[pos].left, value)

\* The objects allocated between heap H and heap H2.
Allocated(H, H2) == {n \in NodeIds : H2[n].live /\ ~H[n].live}

\* C11 (structural sharing on insert).  In every reachable state, for every
\* live non-empty set and every value it does not hold, insert returns
\* true and: every node of the new version that is not on the path from the
\* new root to the new leaf is a node of the version before, the same
\* object with the same children and value; the objects allocated are
\* exactly the new anchor and the nodes of that path, which are one copy
\* (same value, a different object) of each node of the search path in the
\* old version, in the same order, followed by the new leaf.
StructuralSharing ==
    \A h \in Handles : \A value \in Values :
      (alive[h] /\ ~empty(_size[h]) /\ value \notin Elements(heap, tree[h])) =>
        LET r == insert(heap, tree[h], _size[h], value)
            old == SearchPath(heap, heap[tree[h]].left, value)
            new == SearchPath(r.heap, r.heap[r.tree].left, value)
        IN /\ r.second
           /\ \A n \in ValueNodes(r.heap, r.tree) \ Range(new) :
                /\ n \in ValueNodes(heap, tree[h])
                /\ r.heap[n].left = heap[n].left
                /\ r.heap[n].right = heap[n].right
                /\ r.heap[n].value = heap[n].value
           /\ Allocated(heap, r.heap) = {r.tree} \cup Range(new)
           /\ Cardinality(Allocated(heap, r.heap)) = Len(old) + 2
           /\ Len(new) = Len(old) + 1
           /\ \A i \in DOMAIN old :
                /\ get_value(r.heap, new[i]) = get_value(heap, old[i])
                /\ new[i] # old[i]
           /\ new[Len(new)] = r.first.node
           /\ get_value(r.heap, new[Len(new)]) = value
           /\ r.heap[new[Len(new)]].left = Null
           /\ r.heap[new[Len(new)]].right = Null

\* An insert has just added a third element to a set, below its root, while
\* the other set still holds a node of the version before that the new
\* version shares.
StructuralSharingWitness ==
    /\ last.op = "insert" /\ last.ok
    /\ _size[last.h] = 3
    /\ it.node # heap[tree[last.h]].left
    /\ \E b \in Others(last.h) :
         /\ tree[b] # tree[last.h]
         /\ ValueNodes(heap, tree[b]) \cap ValueNodes(heap, tree[last.h]) # {}

(* --------------------------- cursor lifetime --------------------------- *)

\* The cursor c reads the same in heap H2 as in heap H: its node and its
\* anchor are still allocated, its node holds the same value and children,
\* and stepping from it, forward to end() and backward to begin(), visits
\* the same nodes with the same values.
SameReading(H, H2, c) ==
    /\ Survives(H2, c.node) = c.node
    /\ Survives(H2, c.root) = c.root
    /\ H2[c.node].value = H[c.node].value
    /\ H2[c.node].left = H[c.node].left
    /\ H2[c.node].right = H[c.node].right
    /\ Walk(H2, c.node, c.root, MaxNodes) = Walk(H, c.node, c.root, MaxNodes)
    /\ Deref(H2, Walk(H2, c.node, c.root, MaxNodes))
         = Deref(H, Walk(H, c.node, c.root, MaxNodes))
    /\ ReverseWalk(H2, c.node, begin(H2, c.root).node, c.root, MaxNodes)
         = ReverseWalk(H, c.node, begin(H, c.root).node, c.root, MaxNodes)
    /\ Deref(H2, ReverseWalk(H2, c.node, begin(H2, c.root).node, c.root, MaxNodes))
         = Deref(H, ReverseWalk(H, c.node, begin(H, c.root).node, c.root, MaxNodes))
    /\ Forward(H2, c.root) = Forward(H, c.root)

\* C12 (pinned cursors survive mutation).  In every reachable state in
\* which the anchor of the cursor held is the anchor a live set b owns (b
\* pins the version the cursor refers to): the cursor's anchor and node are
\* allocated and the node belongs to that version, stepping from it visits
\* the elements of b in ascending order, and whatever insert, erase or clear
\* is applied to another live set a, the cursor reads the same afterwards.
\* (By induction this covers every sequence of such operations on a: every
\* cursor of b's version is held in some state reached after them.)
PinnedCursors ==
    \A b \in Handles :
      (alive[b] /\ tree[b] # Null /\ it.root = tree[b]) =>
        /\ InVersion(heap, it)
        /\ Fault \notin Range(Walk(heap, it.node, it.root, MaxNodes))
        /\ StrictlyAscending(Deref(heap, Walk(heap, it.node, it.root, MaxNodes)))
        /\ Range(Deref(heap, Forward(heap, it.root))) = elems[b]
        /\ \A a \in Others(b) :
             /\ \A value \in Values :
                  SameReading(heap, insert(heap, tree[a], _size[a], value).heap, it)
             /\ \A n \in ValueNodes(heap, tree[a]) :
                  SameReading(heap, erase(heap, tree[a], _size[a], n).heap, it)
             /\ SameReading(heap, clear(heap, tree[a], _size[a]).heap, it)

\* erase has just rebuilt a set with the cursor held, a cursor of the
\* version that set had; the other set owns the anchor of that version, and
\* the cursor still refers to that anchor and to a node holding the value
\* erased.
PinnedCursorsWitness ==
    /\ last.op = "erase" /\ last.ok
    /\ \E b \in Others(last.h) : it.root = tree[b] /\ tree[b] # tree[last.h]
    /\ it.node \in NodeIds
    /\ heap[it.node].live
    /\ get_value(heap, it.node) = last.v
    /\ _size[last.h] >= 1

\* The nodes erase_impl is applied to on its way from pos to pos2: the
\* nodes above pos2 (each is copied), pos2 itself and, when pos2 has two
\* children, the nodes from its right child down to the minimum of its
\* right subtree.
RECURSIVE ErasePath(_, _, _)
ErasePath(H, pos, pos2) ==
    IF pos = pos2
    THEN IF H[pos2].right = Null \/ H[pos2].left = Null
         THEN <<pos>>
         ELSE <<pos>> \o ErasePath(H, H[pos].right, min(H, H[pos].right))
    ELSE IF get_value(H, pos) < get_value(H, pos2)
    THEN <<pos>> \o ErasePath(H, H[pos].right, pos2)
    ELSE <<pos>> \o ErasePath(H, H[pos].left, pos2)

\* The nodes erase_impl copies on that way: all of them but pos2 (replaced
\* by a child or by a new node with another value) and the last one (pos2,
\* or the minimum that moves up).
CopiedByErase(H, pos, pos2) ==
    LET path == ErasePath(H, pos, pos2)
    IN Range(path) \ {pos2, path[Len(path)]}

\* The anchor of set a is owned by set a alone.
Unpinned(a) == alive[a] /\ tree[a] # Null /\ \A b \in Others(a) : tree[b] # tree[a]

\* The node n is a node of the version of another live set.
HeldElsewhere(a, n) == \E b \in Others(a) : n \in ValueNodes(heap, tree[b])

\* C13 as stated.  For every set whose anchor no other set owns, after a
\* successful insert or erase the anchor of the version before is
\* deallocated and so is every node of the path the operation copied.
UnpinnedCursorsDangleAll ==
    \A a \in Handles : Unpinned(a) =>
      /\ \A value \in Values \ Elements(heap, tree[a]) :
           LET r == insert(heap, tree[a], _size[a], value)
           IN /\ ~r.heap[tree[a]].live
              /\ \A n \in Range(SearchPath(heap, heap[tree[a]].left, value)) :
                   ~r.heap[n].live
      /\ \A pos2 \in ValueNodes(heap, tree[a]) :
           LET r == erase(heap, tree[a], _size[a], pos2)
           IN /\ ~r.heap[tree[a]].live
              /\ \A n \in CopiedByErase(heap, heap[tree[a]].left, pos2) :
                   ~r.heap[n].live

\* C13 (unpinned cursors dangle), amended.  For every set whose anchor no
\* other set owns, after a successful insert or erase the anchor of the
\* version before is deallocated, so every cursor of that version (end()
\* included) has an invalid anchor; a node of the path the operation copied
\* is deallocated exactly when it is not also a node of the version of
\* another live set, which keeps it allocated.
UnpinnedCursorsDangle ==
    \A a \in Handles : Unpinned(a) =>
      /\ \A value \in Values \ Elements(heap, tree[a]) :
           LET r == insert(heap, tree[a], _size[a], value)
           IN /\ r.second
              /\ ~r.heap[tree[a]].live
              /\ Survives(r.heap, end(tree[a]).root) = Invalid
              /\ \A n \in Range(SearchPath(heap, heap[tree[a]].left, value)) :
                   /\ n \notin ValueNodes(r.heap, r.tree)
                   /\ ~r.heap[n].live <=> ~HeldElsewhere(a, n)
      /\ \A pos2 \in ValueNodes(heap, tree[a]) :
           LET r == erase(heap, tree[a], _size[a], pos2)
           IN /\ r.tree # tree[a]
              /\ ~r.heap[tree[a]].live
              /\ Survives(r.heap, end(tree[a]).root) = Invalid
              /\ \A n \in CopiedByErase(heap, heap[tree[a]].left, pos2) :
                   /\ n \notin ValueNodes(r.heap, r.tree)
                   /\ ~r.heap[n].live <=> ~HeldElsewhere(a, n)

\* erase has just rebuilt a set whose anchor it alone owned, with the cursor
\* held: the cursor's anchor and node are both gone, while the other set
\* still holds elements.
UnpinnedCursorsWitness ==
    /\ last.op = "erase" /\ last.ok
    /\ it.root = Invalid
    /\ it.node = Invalid
    /\ _size[last.h] >= 1
    /\ \E b \in Others(last.h) : _size[b] >= 1

(* ---------------------------- node lifetime ---------------------------- *)

\* The objects reachable from the anchor of some live set.
Reachable ==
    UNION {{tree[h]} \cup ValueNodes(heap, tree[h]) : h \in {g \in Handles : alive[g] /\ tree[g] # Null}}

\* The objects reached from p (p included) by following at most fuel owning
\* pointers.
RECURSIVE Within(_, _, _)
Within(H, p, fuel) ==
    IF p = Null \/ fuel = 0 THEN {}
    ELSE {p} \cup Within(H, H[p].left, fuel - 1) \cup Within(H, H[p].right, fuel - 1)

\* The number of owners of object n: the members tree and the members left
\* and right of allocated objects that point to it.
Owners(n) ==
    Cardinality({h \in Handles : tree[h] = n})
      + Cardinality({m \in NodeIds : heap[m].live /\ heap[m].left = n})
      + Cardinality({m \in NodeIds : heap[m].live /\ heap[m].right = n})

\* C14 (node lifetime).  In every reachable state (between operations), the
\* allocated objects are exactly the objects reachable from the anchor of
\* some live set; the use count of each is the number of its owners; no
\* object is reachable from one of its own children (the ownership graph
\* has no cycle); and a set that is not constructed owns nothing.
NodeLifetime ==
    /\ {n \in NodeIds : heap[n].live} = Reachable
    /\ \A n \in NodeIds : heap[n].live => heap[n].rc = Owners(n) /\ heap[n].rc >= 1
    /\ \A n \in NodeIds : ~heap[n].live => heap[n] = FreeCell
    /\ \A n \in NodeIds :
         n \notin Within(heap, heap[n].left, MaxNodes) \cup Within(heap, heap[n].right, MaxNodes)
    /\ \A h \in Handles : ~alive[h] => tree[h] = Null

\* erase has just rebuilt a set, and a value node is owned twice (by nodes
\* of two versions) while the two sets have different anchors.
NodeLifetimeWitness ==
    /\ last.op = "erase" /\ last.ok
    /\ \E b \in Others(last.h) : tree[b] # tree[last.h] /\ tree[b] # Null
    /\ \E n \in NodeIds : heap[n].live /\ heap[n].value # NoValue /\ heap[n].rc = 2

(* ------------------------- erase case analysis ------------------------- *)

\* Object q of heap H2 is object q of heap H, unchanged (or both are absent).
SameInstance(H, H2, q) ==
    q # Null =>
      /\ H[q].live /\ H2[q].live
      /\ H2[q].left = H[q].left
      /\ H2[q].right = H[q].right
      /\ H2[q].value = H[q].value

\* Object q of heap H2 was allocated after heap H.
NewlyAllocated(H, H2, q) == q # Null /\ ~H[q].live /\ H2[q].live

\* In heap H2, q stands where pos stood in heap H, and is what erasing the
\* node pos2 (in the subtree of pos) makes of pos.
RECURSIVE ErasedAs(_, _, _, _, _)
ErasedAs(H, H2, pos, pos2, q) ==
    IF pos = pos2
    THEN IF H[pos2].right = Null
         THEN q = H[pos2].left /\ SameInstance(H, H2, q)
         ELSE IF H[pos2].left = Null
         THEN q = H[pos2].right /\ SameInstance(H, H2, q)
         ELSE LET minimum == CHOOSE m \in Subtree(H, H[pos2].right) :
                                \A k \in Subtree(H, H[pos2].right) :
                                   get_value(H, m) <= get_value(H, k)
              IN /\ NewlyAllocated(H, H2, q)
                 /\ H2[q].value = get_value(H, minimum)
                 /\ H2[q].left = H[pos2].left
                 /\ SameInstance(H, H2, H[pos2].left)
                 /\ ErasedAs(H, H2, H[pos2].right, minimum, H2[q].right)
    ELSE /\ NewlyAllocated(H, H2, q)
         /\ H2[q].value = H[pos].value
         /\ IF pos2 \in Subtree(H, H[pos].left)
            THEN /\ H2[q].right = H[pos].right
                 /\ SameInstance(H, H2, H[pos].right)
                 /\ ErasedAs(H, H2, H[pos].left, pos2, H2[q].left)
            ELSE /\ H2[q].left = H[pos].left
                 /\ SameInstance(H, H2, H[pos].left)
                 /\ ErasedAs(H, H2, H[pos].right, pos2, H2[q].right)

\* C17 (erase case analysis).  In every reachable state, for every live set
\* and every node T of its version, erase at T builds a new anchor whose
\* tree is the old one in which: T without a right child is replaced by its
\* left child (the same object, possibly absent); T with a right child only
\* is replaced by its right child (the same object); T with two children is
\* replaced by a newly allocated node holding the minimum value of T's
\* right subtree, whose left child is T's left child and whose right child
\* is T's right subtree with that minimum erased by the same rule; and each
\* proper ancestor of T is replaced by a newly allocated node with the same
\* value, the child towards T replaced and the other child shared.
EraseCases ==
    \A h \in Handles : alive[h] =>
      \A pos2 \in ValueNodes(heap, tree[h]) :
        LET r == erase(heap, tree[h], _size[h], pos2)
        IN /\ NewlyAllocated(heap, r.heap, r.tree)
           /\ r.heap[r.tree].right = Null
           /\ ErasedAs(heap, r.heap, heap[tree[h]].left, pos2, r.heap[r.tree].left)

\* erase has just removed, from a five-element set, a node below the root
\* that had two children and a right child with a left child: the node now
\* in its place holds a greater value and still has two children.
EraseCasesWitness ==
    /\ last.op = "erase" /\ last.ok /\ last.kids = 2 /\ last.deep
    /\ _size[last.h] = 4
    /\ LET root == heap[tree[last.h]].left
       IN /\ get_value(heap, root) < last.v
          /\ heap[root].left = Null
          /\ Children(heap, heap[root].right) = 2
          /\ get_value(heap, heap[root].right) > last.v

(* -------------------------- bounded re-descent ------------------------- *)

\* The nodes the for (;;) of find visits from cur on, in order.
RECURSIVE FindVisits(_, _, _)
FindVisits(H, cur, value) ==
    IF cur = Null THEN <<>>
    ELSE IF get_value(H, cur) > value THEN <<cur>> \o FindVisits(H, H[cur].left, value)
    ELSE IF get_value(H, cur) < value THEN <<cur>> \o FindVisits(H, H[cur].right, value)
    ELSE <<cur>>

\* The nodes the for (;;) of next and of prev visits from cur on (the two
\* loops move alike and differ in the candidate they record); Fault stands
\* for the dereference of an absent child.
RECURSIVE LoopVisits(_, _, _)
LoopVisits(H, n, cur) ==
    IF cur = Null THEN <<Fault>>
    ELSE IF get_value(H, cur) < get_value(H, n) THEN <<cur>> \o LoopVisits(H, n, H[cur].right)
    ELSE IF get_value(H, cur) > get_value(H, n) THEN <<cur>> \o LoopVisits(H, n, H[cur].left)
    ELSE <<cur>>

\* The nodes the while of min visits from cur on.
RECURSIVE MinVisits(_, _)
MinVisits(H, cur) ==
    IF H[cur].left # Null THEN <<cur>> \o MinVisits(H, H[cur].left) ELSE <<cur>>

\* The nodes the while of max visits from cur on.
RECURSIVE MaxVisits(_, _)
MaxVisits(H, cur) ==
    IF H[cur].right # Null THEN <<cur>> \o MaxVisits(H, H[cur].right) ELSE <<cur>>

\* The nodes next visits.
NextVisits(H, n, root) ==
    IF H[n].right # Null THEN MinVisits(H, H[n].right) ELSE LoopVisits(H, n, H[root].left)

\* The nodes prev visits.
PrevVisits(H, n, root) ==
    IF H[n].left # Null THEN MaxVisits(H, H[n].left) ELSE LoopVisits(H, n, H[root].left)

\* The number of nodes on the longest downward path from p.
RECURSIVE Height(_, _)
Height(H, p) ==
    IF p = Null THEN 0
    ELSE LET l == Height(H, H[p].left)
             r == Height(H, H[p].right)
         IN 1 + (IF l > r THEN l ELSE r)

\* The visits are allocated nodes of the version anchored at t, each the
\* child of the one before (a single downward path), never an absent
\* child, and no more than the height of the tree.
Downward(H, t, visits) ==
    /\ \A i \in DOMAIN visits : visits[i] \in ValueNodes(H, t) /\ H[visits[i]].live
    /\ \A i \in 1..(Len(visits) - 1) :
         visits[i + 1] \in {H[visits[i]].left, H[visits[i]].right}
    /\ Len(visits) <= Height(H, H[t].left)

\* C19 (bounded re-descent).  In every reachable state, for every live set
\* with an anchor: find of every value visits a single downward path from
\* the root and returns its last node if that node holds the value, end()
\* otherwise; for every node of the version (a non-end cursor) next does
\* not fault and visits a single downward path, ending at the node itself
\* when it re-descends from the root; for the anchor and every node but
\* the first (a non-begin cursor) prev does likewise.  Each path has at
\* most height-many nodes, so the loops terminate.
BoundedDescent ==
    \A h \in Handles : (alive[h] /\ tree[h] # Null) =>
      LET t == tree[h]
      IN /\ \A value \in DeepValues :
              LET visits == FindVisits(heap, heap[t].left, value)
                  found == visits # <<>> /\ get_value(heap, visits[Len(visits)]) = value
              IN /\ Downward(heap, t, visits)
                 /\ visits # <<>> => visits[1] = heap[t].left
                 /\ find(heap, t, value) =
                      IF found THEN iterator(visits[Len(visits)], t) ELSE end(t)
         /\ \A n \in ValueNodes(heap, t) :
              LET visits == NextVisits(heap, n, t)
              IN /\ next(heap, n, t) # Fault
                 /\ Downward(heap, t, visits)
                 /\ visits[1] = IF heap[n].right # Null THEN heap[n].right ELSE heap[t].left
                 /\ visits[Len(visits)] =
                      IF heap[n].right # Null THEN next(heap, n, t) ELSE n
         /\ \A n \in (ValueNodes(heap, t) \cup {t}) \ {begin(heap, t).node} :
              LET visits == PrevVisits(heap, n, t)
              IN /\ prev(heap, n, t) # Fault
                 /\ Downward(heap, t, visits)
                 /\ visits[1] = heap[IF heap[n].left # Null THEN n ELSE t].left
                 /\ visits[Len(visits)] =
                      IF heap[n].left # Null THEN prev(heap, n, t) ELSE n

\* operator-- has just moved the cursor held to the node before a node that
\* has no left child and lies at least three nodes deep, so that prev went
\* down again from the root through three nodes or more.
BoundedDescentWitness ==
    /\ last.op = "dec"
    /\ InVersion(heap, it)
    /\ it.node # it.root
    /\ LET n == next(heap, it.node, it.root)
       IN /\ n \in ValueNodes(heap, it.root)
          /\ heap[n].left = Null
          /\ Len(PrevVisits(heap, n, it.root)) >= 3

(* ------------------------- stepping back from begin -------------------- *)

\* C20 (decrementing begin()).  In every reachable state, for every live
\* non-empty set, begin() refers to a value node, prev of that node does
\* not fault and is the anchor, so the decremented cursor equals end(); and
\* prev of the anchor is the node holding the maximum element.
BeginWraps ==
    \A h \in Handles : (alive[h] /\ ~empty(_size[h])) =>
      LET t == tree[h]
          first == begin(heap, t)
          before == iterator(prev(heap, first.node, first.root), first.root)
      IN /\ first.node \in ValueNodes(heap, t)
         /\ before.node # Fault
         /\ before.node = t
         /\ SameCursor(before, end(t))
         /\ before = end(t)
         /\ prev(heap, before.node, before.root) \in ValueNodes(heap, t)
         /\ get_value(heap, prev(heap, before.node, before.root)) = Maximum(elems[h])

\* operator-- has just moved the cursor held from the first element of a
\* set of two or more elements to the anchor: the cursor equals end().
BeginWrapsWitness ==
    /\ last.op = "dec"
    /\ InVersion(heap, it)
    /\ it.node = it.root
    /\ \E h \in Handles : alive[h] /\ tree[h] = it.root /\ _size[h] >= 2 /\ it = end(tree[h])

(* ------------------------- allocation failure -------------------------- *)

\* With allocations enough, the operators that can throw return what insert
\* and erase return.
ThrowsAgree ==
    \A h \in Handles : alive[h] =>
      LET k == MaxVal + 2
      IN /\ \A value \in Values :
              LET r == insert(heap, tree[h], _size[h], value)
                  q == insert_throws(heap, tree[h], _size[h], value, k)
              IN ~q.thrown /\ q.heap = r.heap /\ q.tree = r.tree /\ q.size = r.size
         /\ \A pos2 \in ValueNodes(heap, tree[h]) :
              LET r == erase(heap, tree[h], _size[h], pos2)
                  q == erase_throws(heap, tree[h], _size[h], pos2, k)
              IN ~q.thrown /\ q.heap = r.heap /\ q.tree = r.tree /\ q.size = r.size

\* C15 (atomicity under allocation failure), as stated.  In every reachable
\* state, for every live set, with or without an anchor, and every number
\* of allocations that succeed before one fails: when insert or erase
\* throws, the member tree and the member _size are exactly those before
\* the call (and nothing was allocated or freed).
AllocationAtomicity ==
    \A h \in Handles : alive[h] =>
      \A k \in AllocBudgets :
        /\ \A value \in Values :
             LET r == insert_throws(heap, tree[h], _size[h], value, k)
             IN r.thrown => r.tree = tree[h] /\ r.size = _size[h]
        /\ \A pos2 \in ValueNodes(heap, tree[h]) :
             LET r == erase_throws(heap, tree[h], _size[h], pos2, k)
             IN r.thrown => r.tree = tree[h] /\ r.size = _size[h]

\* The same for the sets that have an anchor already.
AllocationAtomicityAnchored ==
    \A h \in Handles : (alive[h] /\ tree[h] # Null) =>
      \A k \in AllocBudgets :
        /\ \A value \in Values :
             LET r == insert_throws(heap, tree[h], _size[h], value, k)
             IN r.thrown => r.tree = tree[h] /\ r.size = _size[h] /\ r.heap = heap
        /\ \A pos2 \in ValueNodes(heap, tree[h]) :
             LET r == erase_throws(heap, tree[h], _size[h], pos2, k)
             IN r.thrown => r.tree = tree[h] /\ r.size = _size[h] /\ r.heap = heap

(* ------------------- operations running step by step ------------------- *)
(* A mutation of the first set and a read of the second set, each running  *)
(* one step at a time, the steps of the two interleaved.  A step of the    *)
(* mutation is one allocation, one assignment to a member or one           *)
(* destruction of an owning pointer; a step of the read is the visit of    *)
(* one object.  Addresses are not renamed while either is in progress.     *)

Writing == HandleSeq[1]
Reading == HandleSeq[2]

\* An operation is or was in progress step by step.
Running == wr.pc # "idle" \/ rd.pc # "idle"

\* insert(value) as a whole on set h before anything runs step by step (the
\* caller drops the pair returned).
PrepInsert(h, value) ==
    /\ ~Running
    /\ alive[h]
    /\ LET r == insert(heap, tree[h], _size[h], value)
       IN /\ Becomes(Commit(r.heap, [tree EXCEPT ![h] = r.tree], it))
          /\ _size' = [_size EXCEPT ![h] = r.size]
    /\ elems' = [elems EXCEPT ![h] = @ \cup {value}]
    /\ UNCHANGED <<alive, last>>

\* erase(find(value)) as a whole on set h before anything runs step by step.
PrepErase(h, value) ==
    /\ ~Running
    /\ alive[h]
    /\ value \in Elements(heap, tree[h])
    /\ LET r == erase(heap, tree[h], _size[h], find(heap, tree[h], value).node)
       IN /\ Becomes(Commit(r.heap, [tree EXCEPT ![h] = r.tree], it))
          /\ _size' = [_size EXCEPT ![h] = r.size]
    /\ elems' = [elems EXCEPT ![h] = @ \ {value}]
    /\ UNCHANGED <<alive, last>>

\* The two sets are constructed, the second as a copy of the first.
PrepConstruct == ~Running /\ Construct(Writing)

PrepCopy == ~Running /\ CopyConstruct(Reading, Writing)

\* insert(value) begins on the first set: tree_() and find.  A value found
\* ends the call.
StartInsert(value) ==
    /\ wr.pc = "idle"
    /\ alive[Writing]
    /\ LET t0 == tree_(heap, tree[Writing])
           res == find(t0.heap, t0.ptr, value)
       IN /\ heap' = t0.heap
          /\ tree' = [tree EXCEPT ![Writing] = t0.ptr]
          /\ wr' = [NoWriter EXCEPT
                      !.pc = IF ~SameCursor(res, end(t0.ptr)) THEN "done" ELSE "tmp",
                      !.op = "insert", !.value = value,
                      !.expect = LET r == insert(heap, tree[Writing], _size[Writing], value)
                                 IN [heap |-> r.heap, tree |-> r.tree, size |-> r.size]]
    /\ UNCHANGED <<alive, _size, it, last, elems, rd>>

\* erase(it) begins on the first set, with a cursor to node pos2 of its
\* version.
StartErase(pos2) ==
    /\ wr.pc = "idle"
    /\ alive[Writing]
    /\ pos2 \in ValueNodes(heap, tree[Writing])
    /\ wr' = [NoWriter EXCEPT
                !.pc = "tmp", !.op = "erase", !.at = pos2,
                !.value = get_value(heap, pos2),
                !.expect = erase(heap, tree[Writing], _size[Writing], pos2)]
    /\ UNCHANGED <<heap, alive, tree, _size, it, last, elems, rd>>

\* auto tmp_tree = std::make_shared<bNode>(); the recursion then goes down
\* to the place of the change, reading only.
AllocTmp ==
    /\ wr.pc = "tmp"
    /\ LET new == MakeAnchor(heap)
           root == heap[tree[Writing]].left
       IN /\ heap' = new.heap
          /\ wr' = [wr EXCEPT
                      !.pc = "build", !.tmp = new.ptr, !.fresh = {new.ptr},
                      !.path = IF wr.op = "insert" THEN SearchPath(heap, root, wr.value)
                               ELSE ErasePath(heap, root, wr.at)]
    /\ UNCHANGED <<alive, tree, _size, it, last, elems, rd>>

\* insert_impl at the absent child: std::make_shared<node>(nullptr, nullptr,
\* value).
BuildLeaf ==
    /\ wr.pc = "build" /\ wr.op = "insert" /\ ~wr.built
    /\ LET new == MakeNode(heap, Null, Null, wr.value)
       IN /\ heap' = new.heap
          /\ wr' = [wr EXCEPT !.sub = new.ptr, !.built = TRUE, !.fresh = @ \cup {new.ptr}]
    /\ UNCHANGED <<alive, tree, _size, it, last, elems, rd>>

\* erase_impl at the node that goes away (pos2, or the minimum of its right
\* subtree when pos2 has two children): return pos2->left or pos2->right.
EraseBase ==
    /\ wr.pc = "build" /\ wr.op = "erase" /\ ~wr.built
    /\ LET e == wr.path[Len(wr.path)]
           child == IF heap[e].right = Null THEN heap[e].left ELSE heap[e].right
       IN /\ heap' = Incref(heap, child)
          /\ wr' = [wr EXCEPT !.sub = child, !.built = TRUE,
                              !.path = SubSeq(wr.path, 1, Len(wr.path) - 1)]
    /\ UNCHANGED <<alive, tree, _size, it, last, elems, rd>>

\* The node the recursion builds in place of pos, the deepest node not yet
\* replaced, when it returns to it with the shared_ptr sub.
Rebuilt(H, pos) ==
    IF wr.op = "insert"
    THEN IF get_value(H, pos) < wr.value
         THEN MakeNode(H, H[pos].left, wr.sub, get_value(H, pos))
         ELSE MakeNode(H, wr.sub, H[pos].right, get_value(H, pos))
    ELSE IF pos = wr.at
    THEN MakeNode(H, H[pos].left, wr.sub, get_value(H, min(H, H[pos].right)))
    ELSE LET pos2 == IF wr.at \in Range(wr.path) THEN min(H, H[wr.at].right) ELSE wr.at
         IN IF get_value(H, pos) < get_value(H, pos2)
            THEN MakeNode(H, H[pos].left, wr.sub, get_value(H, pos))
            ELSE MakeNode(H, wr.sub, H[pos].right, get_value(H, pos))

\* A variant that assigns the child of the node itself instead of building
\* a copy of the node.
CopyStep_inplace ==
    /\ wr.pc = "build" /\ wr.built /\ wr.path # <<>>
    /\ LET pos == wr.path[Len(wr.path)]
       IN /\ heap' = Incref([heap EXCEPT ![pos].left = wr.sub], pos)
          /\ wr' = [wr EXCEPT !.sub = pos, !.path = SubSeq(wr.path, 1, Len(wr.path) - 1)]
    /\ UNCHANGED <<alive, tree, _size, it, last, elems, rd>>

\* insert_impl / erase_impl returning to a node of the path:
\* std::make_shared<node>(...) with the child just built; the temporary
\* that held that child is destroyed.
CopyStep ==
    /\ wr.pc = "build" /\ wr.built /\ wr.path # <<>>
    /\ LET pos == wr.path[Len(wr.path)]
           new == Rebuilt(heap, pos)
       IN /\ heap' = Release(new.heap, wr.sub)
          /\ wr' = [wr EXCEPT !.sub = new.ptr, !.fresh = @ \cup {new.ptr},
                              !.path = SubSeq(wr.path, 1, Len(wr.path) - 1)]
    /\ UNCHANGED <<alive, tree, _size, it, last, elems, rd>>

\* tmp_tree->left = (the shared_ptr the recursion returned)
Link ==
    /\ wr.pc = "build" /\ wr.built /\ wr.path = <<>>
    /\ heap' = [heap EXCEPT ![wr.tmp].left = wr.sub]
    /\ wr' = [wr EXCEPT !.pc = "install"]
    /\ UNCHANGED <<alive, tree, _size, it, last, elems, rd>>

\* tree = tmp_tree; _size++ or _size--.  The anchor of the version before
\* loses the owner that tree was.
Install ==
    /\ wr.pc = "install"
    /\ tree' = [tree EXCEPT ![Writing] = wr.tmp]
    /\ _size' = [_size EXCEPT ![Writing] = IF wr.op = "insert" THEN @ + 1 ELSE @ - 1]
    /\ elems' = [elems EXCEPT ![Writing] =
                   IF wr.op = "insert" THEN @ \cup {wr.value} ELSE @ \ {wr.value}]
    /\ wr' = [wr EXCEPT !.pc = "release", !.fresh = {}, !.pending = <<tree[Writing]>>]
    /\ UNCHANGED <<heap, alive, it, last, rd>>

\* clear() on the first set: tree = nullptr; _size = 0.
StartClear ==
    /\ wr.pc = "idle"
    /\ alive[Writing]
    /\ tree' = [tree EXCEPT ![Writing] = Null]
    /\ _size' = [_size EXCEPT ![Writing] = 0]
    /\ elems' = [elems EXCEPT ![Writing] = {}]
    /\ wr' = [NoWriter EXCEPT
                !.pc = "release", !.op = "clear",
                !.pending = IF tree[Writing] = Null THEN <<>> ELSE <<tree[Writing]>>,
                !.expect = clear(heap, tree[Writing], _size[Writing])]
    /\ UNCHANGED <<heap, alive, it, last, rd>>

\* The owning pointers a deallocated object held.
Owned(H, p) ==
    (IF H[p].left = Null THEN <<>> ELSE <<H[p].left>>)
      \o (IF H[p].right = Null THEN <<>> ELSE <<H[p].right>>)

\* A variant that deallocates the object whatever other owners it has.
ReleaseStep_eager ==
    /\ wr.pc = "release" /\ wr.pending # <<>>
    /\ LET p == Head(wr.pending)
       IN /\ heap' = [heap EXCEPT ![p] = FreeCell]
          /\ wr' = [wr EXCEPT !.pending = Owned(heap, p) \o Tail(wr.pending),
                              !.freed = @ + 1]
    /\ UNCHANGED <<alive, tree, _size, it, last, elems, rd>>

\* One owning pointer is destroyed: the use count of its object drops, and
\* at zero the object is deallocated and its own pointers are destroyed.
ReleaseStep ==
    /\ wr.pc = "release" /\ wr.pending # <<>>
    /\ LET p == Head(wr.pending)
       IN IF heap[p].rc > 1
          THEN /\ heap' = [heap EXCEPT ![p].rc = @ - 1]
               /\ wr' = [wr EXCEPT !.pending = Tail(wr.pending)]
          ELSE /\ heap' = [heap EXCEPT ![p] = FreeCell]
               /\ wr' = [wr EXCEPT !.pending = Owned(heap, p) \o Tail(wr.pending),
                                   !.freed = @ + 1]
    /\ UNCHANGED <<alive, tree, _size, it, last, elems, rd>>

\* The call returns.
Return ==
    /\ wr.pc = "release" /\ wr.pending = <<>>
    /\ wr' = [wr EXCEPT !.pc = "done"]
    /\ UNCHANGED <<heap, alive, tree, _size, it, last, elems, rd>>

\* The read visits object p: whether it has visited (now or before) an
\* object that is deallocated or that the mutation in progress has
\* allocated and not yet installed.
Visit(p) == rd.bad \/ ~heap[p].live \/ p \in wr.fresh

\* The read has visited an object while a mutation was in progress.
Amid == rd.mid \/ wr.pc \notin {"idle", "done"}

\* find(value) begins on the second set: if (!tree) return end(); else
\* cur = tree->left.get().
StartFind(value) ==
    /\ rd.pc = "idle"
    /\ alive[Reading]
    /\ LET t == tree[Reading]
       IN rd' = IF t = Null
                THEN [NoReader EXCEPT !.pc = "done", !.op = "find", !.value = value,
                                      !.result = end(t), !.expect = find(heap, t, value)]
                ELSE [NoReader EXCEPT !.pc = "find", !.op = "find", !.value = value,
                                      !.cur = heap[t].left, !.result = end(t),
                                      !.expect = find(heap, t, value),
                                      !.bad = Visit(t), !.mid = Amid]
    /\ UNCHANGED <<heap, alive, tree, _size, it, last, elems, wr>>

\* One turn of the for (;;) of find.
FindStep ==
    /\ rd.pc = "find"
    /\ LET cur == rd.cur
       IN rd' = IF cur = Null THEN [rd EXCEPT !.pc = "done"]
                ELSE IF get_value(heap, cur) > rd.value
                THEN [rd EXCEPT !.cur = heap[cur].left, !.bad = Visit(cur), !.mid = Amid]
                ELSE IF get_value(heap, cur) < rd.value
                THEN [rd EXCEPT !.cur = heap[cur].right, !.bad = Visit(cur), !.mid = Amid]
                ELSE [rd EXCEPT !.pc = "done", !.result = iterator(cur, rd.result.root),
                                !.bad = Visit(cur), !.mid = Amid]
    /\ UNCHANGED <<heap, alive, tree, _size, it, last, elems, wr>>

\* ++ begins on a cursor to node n of the version of the second set:
\* if (right) ... else cur = root->left, result = root.
StartInc(n) ==
    /\ rd.pc = "idle"
    /\ alive[Reading]
    /\ n \in ValueNodes(heap, tree[Reading])
    /\ LET t == tree[Reading]
           r == [NoReader EXCEPT !.op = "inc", !.n = n, !.result = end(t),
                                 !.expect = iterator(next(heap, n, t), t),
                                 !.bad = Visit(n) \/ Visit(t), !.mid = Amid]
       IN rd' = IF heap[n].right # Null
                THEN [r EXCEPT !.pc = "min", !.cur = heap[n].right]
                ELSE [r EXCEPT !.pc = "next", !.cur = heap[t].left]
    /\ UNCHANGED <<heap, alive, tree, _size, it, last, elems, wr>>

\* -- begins on a cursor of the version of the second set that is not
\* begin().
StartDec(n) ==
    /\ rd.pc = "idle"
    /\ alive[Reading]
    /\ tree[Reading] # Null
    /\ n \in (ValueNodes(heap, tree[Reading]) \cup {tree[Reading]})
               \ {begin(heap, tree[Reading]).node}
    /\ LET t == tree[Reading]
           r == [NoReader EXCEPT !.op = "dec", !.n = n, !.result = end(t),
                                 !.expect = iterator(prev(heap, n, t), t),
                                 !.bad = Visit(n) \/ Visit(t), !.mid = Amid]
       IN rd' = IF heap[n].left # Null
                THEN [r EXCEPT !.pc = "max", !.cur = heap[n].left]
                ELSE [r EXCEPT !.pc = "prev", !.cur = heap[t].left]
    /\ UNCHANGED <<heap, alive, tree, _size, it, last, elems, wr>>

\* One turn of the while of min.
MinStep ==
    /\ rd.pc = "min"
    /\ rd' = IF heap[rd.cur].left # Null
             THEN [rd EXCEPT !.cur = heap[rd.cur].left, !.bad = Visit(rd.cur), !.mid = Amid]
             ELSE [rd EXCEPT !.pc = "done", !.result = iterator(rd.cur, rd.result.root),
                             !.bad = Visit(rd.cur), !.mid = Amid]
    /\ UNCHANGED <<heap, alive, tree, _size, it, last, elems, wr>>

\* One turn of the while of max.
MaxStep ==
    /\ rd.pc = "max"
    /\ rd' = IF heap[rd.cur].right # Null
             THEN [rd EXCEPT !.cur = heap[rd.cur].right, !.bad = Visit(rd.cur), !.mid = Amid]
             ELSE [rd EXCEPT !.pc = "done", !.result = iterator(rd.cur, rd.result.root),
                             !.bad = Visit(rd.cur), !.mid = Amid]
    /\ UNCHANGED <<heap, alive, tree, _size, it, last, elems, wr>>

\* One turn of the for (;;) of next.  A null cur is dereferenced: a fault.
NextStep ==
    /\ rd.pc = "next"
    /\ LET cur == rd.cur
       IN rd' = IF cur = Null
                THEN [rd EXCEPT !.pc = "done", !.result = iterator(Fault, rd.result.root),
                                !.bad = TRUE]
                ELSE IF get_value(heap, cur) < get_value(heap, rd.n)
                THEN [rd EXCEPT !.cur = heap[cur].right,
                                !.bad = Visit(cur) \/ Visit(rd.n), !.mid = Amid]
                ELSE IF get_value(heap, cur) > get_value(heap, rd.n)
                THEN [rd EXCEPT !.cur = heap[cur].left,
                                !.result = iterator(cur, rd.result.root),
                                !.bad = Visit(cur) \/ Visit(rd.n), !.mid = Amid]
                ELSE [rd EXCEPT !.pc = "done",
                                !.bad = Visit(cur) \/ Visit(rd.n), !.mid = Amid]
    /\ UNCHANGED <<heap, alive, tree, _size, it, last, elems, wr>>

\* One turn of the for (;;) of prev.
PrevStep ==
    /\ rd.pc = "prev"
    /\ LET cur == rd.cur
       IN rd' = IF cur = Null
                THEN [rd EXCEPT !.pc = "done", !.result = iterator(Fault, rd.result.root),
                                !.bad = TRUE]
                ELSE IF get_value(heap, cur) < get_value(heap, rd.n)
                THEN [rd EXCEPT !.cur = heap[cur].right,
                                !.result = iterator(cur, rd.result.root),
                                !.bad = Visit(cur) \/ Visit(rd.n), !.mid = Amid]
                ELSE IF get_value(heap, cur) > get_value(heap, rd.n)
                THEN [rd EXCEPT !.cur = heap[cur].left,
                                !.bad = Visit(cur) \/ Visit(rd.n), !.mid = Amid]
                ELSE [rd EXCEPT !.pc = "done",
                                !.bad = Visit(cur) \/ Visit(rd.n), !.mid = Amid]
    /\ UNCHANGED <<heap, alive, tree, _size, it, last, elems, wr>>

NextInterleave ==
    \/ PrepConstruct
    \/ PrepCopy
    \/ \E h \in Handles, value \in Values : PrepInsert(h, value)
    \/ \E h \in Handles, value \in Values : PrepErase(h, value)
    \/ \E value \in Values : StartInsert(value)
    \/ \E pos2 \in NodeIds : StartErase(pos2)
    \/ StartClear
    \/ AllocTmp
    \/ BuildLeaf
    \/ EraseBase
    \/ CopyStep
    \/ Link
    \/ Install
    \/ ReleaseStep
    \/ Return
    \/ \E value \in Values : StartFind(value)
    \/ \E n \in NodeIds : StartInc(n)
    \/ \E n \in NodeIds : StartDec(n)
    \/ FindStep
    \/ MinStep
    \/ MaxStep
    \/ NextStep
    \/ PrevStep

\* A mutation of the first set and a read of the second set, interleaved.
SpecInterleave == Init /\ [][NextInterleave]_vars

\* The mutation that ran step by step has left the heap, the member tree
\* and the member _size that the operation as a whole leaves.
WriterAgrees ==
    wr.pc = "done" =>
      /\ heap = wr.expect.heap
      /\ tree[Writing] = wr.expect.tree
      /\ _size[Writing] = wr.expect.size

(* ----------------------- readers and one writer ------------------------ *)

\* What the read in progress returns when it runs as a whole in the
\* present state.
ReadNow ==
    LET t == tree[Reading]
    IN IF rd.op = "find" THEN find(heap, t, rd.value)
       ELSE IF rd.op = "inc" THEN iterator(next(heap, rd.n, t), t)
       ELSE iterator(prev(heap, rd.n, t), t)

\* C16 (readers are isolated from a writer of another set).  In every
\* state of every interleaving of a find, ++ or -- on the second set (one
\* object visited per step) with an insert, erase or clear on the first set
\* (one allocation, assignment or deallocation per step), whatever nodes
\* the two sets share: the read has visited no object that was deallocated
\* or that the mutation had allocated and not yet installed; the node it is
\* about to visit is an allocated node of the version of the second set;
\* and when it has returned, its result is the one the read gives with
\* nothing in between, at its start as well as now.
ReadersIsolated ==
    /\ ~rd.bad
    /\ (rd.pc \notin {"idle", "done"} /\ rd.cur # Null) =>
         /\ heap[rd.cur].live
         /\ rd.cur \notin wr.fresh
         /\ rd.cur \in ValueNodes(heap, tree[Reading])
    /\ rd.pc = "done" =>
         /\ rd.result = rd.expect
         /\ rd.result = ReadNow
         /\ rd.result.node # Fault

\* A ++ on the second set has returned a cursor to an element after it
\* visited objects while an erase on the first set was in progress; the
\* erase has returned too, after it deallocated two objects or more, and the
\* two sets, of different anchors, still share a node.
ReadersIsolatedWitness ==
    /\ rd.pc = "done" /\ rd.op = "inc" /\ rd.mid
    /\ rd.result.node # rd.result.root
    /\ wr.pc = "done" /\ wr.op = "erase" /\ wr.freed >= 2
    /\ tree[Writing] # tree[Reading]
    /\ ValueNodes(heap, tree[Writing]) \cap ValueNodes(heap, tree[Reading]) # {}

(* --------------------------- node immutability ------------------------- *)

\* The step is a step of an operation that runs step by step (the steps of
\* the operations that run as a whole rename the addresses).
RunStep == wr' # wr \/ rd' # rd

\* Object n, allocated before and after the step, keeps its children and
\* its value.
FieldsKept(n) ==
    /\ heap'[n].left = heap[n].left
    /\ heap'[n].right = heap[n].right
    /\ heap'[n].value = heap[n].value

\* The step assigns the left child of the anchor that the mutation in
\* progress has allocated: an anchor no set owns and no node points to,
\* whose left child is still null, and nothing else of it changes.
LinksFreshAnchor(n) ==
    /\ n = wr.tmp
    /\ n \in wr.fresh
    /\ wr.pc = "build" /\ wr'.pc = "install"
    /\ n \notin Reachable
    /\ Owners(n) = 0
    /\ heap[n].value = NoValue
    /\ heap[n].left = Null
    /\ heap'[n].right = heap[n].right
    /\ heap'[n].value = heap[n].value

\* The operation as a whole, taking heap H to heap H2, leaves every object
\* that is allocated before and after it with its children and its value.
Kept(H, H2) ==
    \A n \in NodeIds : (H[n].live /\ H2[n].live) =>
      /\ H2[n].left = H[n].left
      /\ H2[n].right = H[n].right
      /\ H2[n].value = H[n].value

\* Every operation on set h as a whole (insert of any value, erase at any
\* node, clear, the copy and the destruction of h; swap, find, ++ and --
\* leave the heap as it is) leaves the objects allocated before and after
\* it with their children and values.
KeptByOperations(h) ==
    /\ \A value \in Values : Kept(heap, insert(heap, tree[h], _size[h], value).heap)
    /\ \A pos2 \in ValueNodes(heap, tree[h]) :
         Kept(heap, erase(heap, tree[h], _size[h], pos2).heap)
    /\ Kept(heap, clear(heap, tree[h], _size[h]).heap)
    /\ Kept(heap, Incref(heap, tree[h]))
    /\ Kept(heap, Release(heap, tree[h]))

\* C18 as stated.  No step of insert, erase, clear, find, ++ or -- assigns
\* the left child, the right child or the value of an object that was
\* allocated (and constructed) before the step.
NodesImmutable ==
    [][RunStep => \A n \in NodeIds : (heap[n].live /\ heap'[n].live) => FieldsKept(n)]_vars

\* C18 (node immutability), amended.  No step of insert, erase, clear, find,
\* ++ or -- assigns the left child, the right child or the value of an
\* object allocated before the step, except the one assignment
\* tmp_tree->left = ... of insert and erase, which sets the left child of
\* the anchor the running call has allocated, while that anchor is still
\* unreachable from every set.  Hence no value-bearing node and no node
\* reachable from a set is ever mutated, and between operations every
\* object that stays allocated keeps its children and its value.
NodesImmutableOnceInstalled ==
    /\ [][RunStep => \A n \in NodeIds : (heap[n].live /\ heap'[n].live) =>
                       FieldsKept(n) \/ LinksFreshAnchor(n)]_vars
    /\ [](~Running => \A h \in Handles : alive[h] => KeptByOperations(h))

\* insert on the first set has just assigned the left child of its new
\* anchor, not yet installed, after it built a leaf and a copy of a node or
\* more, while the second set holds elements.
NodesImmutableWitness ==
    /\ wr.pc = "install" /\ wr.op = "insert"
    /\ heap[wr.tmp].left # Null
    /\ tree[Writing] # wr.tmp
    /\ Cardinality(wr.fresh) >= 3
    /\ alive[Reading] /\ ~empty(_size[Reading])

=============================================================================
